---- MODULE Spec2Model ----
(***************************************************************************)
(* A model of MorgoTTalk: the preset orchestrator (services/preset.go)     *)
(* with its audio capturer (services/audio.go), engine cache and the       *)
(* hot-swap callback of main.go; the hotkey manager (services/hotkey.go);  *)
(* and the clipboard paste of the text injector.                           *)
(*                                                                         *)
(* Every critical section of a mutex is one atomic action; the code that   *)
(* runs between two critical sections (device open, model load, inference, *)
(* paste) is an action of its own, so that the other goroutines interleave *)
(* exactly where the mutex is released.  PresetService.lastText only feeds *)
(* the GetLastText accessor and is left out.                               *)
(***************************************************************************)
EXTENDS Integers, Sequences, FiniteSets, TLC

(* ------------------------------ bounds --------------------------------- *)
\* goroutines that may be inside the orchestrator at the same time
NumThreads == 2
\* device callbacks delivered to one capture buffer
MaxFrames == 1
\* pending timers that s.recordTimer no longer points to, above which no
\* further StartRecording is issued
MaxStale == 1
\* engine handles ever created
MaxHandles == 2
\* onHotkeyRelease goroutines polling at the same time
MaxPollers == 1
\* chord matches of one binding
MaxMatches == 1
\* chord matches of a binding whose callbacks reach the orchestrator
MaxPresses == 2
\* CaptureHotkey calls
MaxCaptures == 1
\* injections
MaxPastes == 2
\* stretches of chunkSamples samples delivered to one capture buffer
MaxBursts == 1
\* pieces of a chord string
MaxPieces == 3
\* presets in the list, ids in an argument of ReorderPresets
MaxOrder == 3
\* full stretches of chunkSamples samples in the argument of TranscribeLong
MaxChunks == 2

(* -------------------------- program constants -------------------------- *)
minSamples == 8000
pollLimit == 20
chunkSamples == 400000

Threads == 1 .. NumThreads
Handles == 1 .. MaxHandles
\* one device callback delivers the minimum recording length
FrameLen == minSamples

None == "none"
PresetIds == {"p1", "p2"}
InitialPresets == {"p1"}
Backends == {"cpu", "vulkan"}

\* Preset.InputMode, Preset.KeepModelLoaded and Preset.KeepHistory of the
\* presets of the model
InputMode(p) == IF p = "p2" THEN "toggle" ELSE "hold"
KeepModelLoaded(p) == p = "p1"
KeepHistory(p) == p = "p1"

\* the keycodes of the model: ctrl (29), shift (42), f1 (59), Escape (1),
\* and 93, a key the keyboard hook reports that keycodeToName has no entry
\* for
Keys == {29, 42, 59, 1, 93}
kcEscape == 1
\* hotkey.go 285-298
isModifier(kc) == kc \in {29, 42}
\* a string is the sequence of its pieces; the piece "+" is the character
\* that separates the keys of a chord, " " is white space
Plus == "+"
\* hotkey.go 301-357: the display names, those of the keys of the model and
\* of num+ (78)
keycodeToName ==
    (29 :> <<"ctrl">>) @@ (42 :> <<"shift">>) @@ (59 :> <<"f1">>)
        @@ (1 :> <<"esc">>) @@ (78 :> <<"num", Plus>>)
\* hotkey.go 368-376: the aliases, those of the keys of the model
aliases == (<<"escape">> :> 1) @@ (<<"control">> :> 29)
\* hotkey.go 360-377: the reverse map, then the aliases
nameToKeycode ==
    [n \in {keycodeToName[kc] : kc \in DOMAIN keycodeToName}
              \cup DOMAIN aliases |->
        IF n \in DOMAIN aliases THEN aliases[n]
        ELSE CHOOSE kc \in DOMAIN keycodeToName : keycodeToName[kc] = n]
\* Preset.Hotkey of the presets of the model
Hotkey(id) == IF id = "p1" THEN <<"ctrl", Plus, "f1">> ELSE <<"f1">>

Space == " "
\* strings.TrimSpace
RECURSIVE TrimSpace(_)
TrimSpace(text) ==
    IF text = <<>> THEN text
    ELSE IF Head(text) = Space THEN TrimSpace(Tail(text))
    ELSE IF text[Len(text)] = Space THEN TrimSpace(SubSeq(text, 1, Len(text) - 1))
    ELSE text

\* strings.ToLower of one piece, of a string
lowerPiece(w) == IF w = "Ctrl" THEN "ctrl" ELSE w
ToLower(str) == [k \in DOMAIN str |-> lowerPiece(str[k])]

\* strings.Split(str, "+"): the stretches between the separators, one more
\* than there are separators
RECURSIVE Split(_)
Split(str) ==
    IF \A k \in DOMAIN str : str[k] # Plus THEN <<str>>
    ELSE LET k == CHOOSE j \in DOMAIN str :
                      str[j] = Plus /\ \A l \in 1 .. j - 1 : str[l] # Plus IN
         <<SubSeq(str, 1, k - 1)>> \o Split(SubSeq(str, k + 1, Len(str)))

\* sort.Slice with the comparison of parseHotkeyStr (hotkey.go 398)
byKeycode(a, b) == a < b
\* sort.Slice with the comparison of keysToString (hotkey.go 405-411)
modifiersFirst(a, b) ==
    IF isModifier(a) # isModifier(b) THEN isModifier(a) ELSE a < b

ParseError == "ParseError"
\* hotkey.go 380-400: the sorted keycodes of a chord string; err is set for
\* the empty string and for a part that is no key name
parseHotkeyStr(str) ==
    LET t == TrimSpace(ToLower(str))
        parts == Split(t)
        names == [k \in DOMAIN parts |-> TrimSpace(parts[k])] IN
    IF t = <<>> \/ \E k \in DOMAIN names : names[k] \notin DOMAIN nameToKeycode
    THEN [err |-> ParseError, keys |-> <<>>]
    ELSE [err |-> None,
          keys |-> SortSeq([k \in DOMAIN names |-> nameToKeycode[names[k]]],
                           byKeycode)]

\* strings.Join(parts, "+")
RECURSIVE JoinPlus(_)
JoinPlus(parts) ==
    IF parts = <<>> THEN <<>>
    ELSE IF Len(parts) = 1 THEN Head(parts)
    ELSE Head(parts) \o <<Plus>> \o JoinPlus(Tail(parts))

hasName(kc) == kc \in DOMAIN keycodeToName
\* a display string whose names are joined by white space
keysToStringSpaced(keys) ==
    LET named == SelectSeq(SortSeq(keys, modifiersFirst), hasName) IN
    [k \in 1 .. 2 * Len(named) - 1 |->
        IF k % 2 = 1 THEN keycodeToName[named[(k + 1) \div 2]][1] ELSE Space]

\* hotkey.go 404-420: the display string of a list of keycodes, modifiers
\* first; a keycode without a name is left out
keysToString(keys) ==
    LET named == SelectSeq(SortSeq(keys, modifiersFirst), hasName) IN
    JoinPlus([k \in DOMAIN named |-> keycodeToName[named[k]]])

\* the slice a loop over a map of keys builds (hotkey.go 229-234, 254-257);
\* its order does not reach the result of keysToString, which sorts
RECURSIVE keysOf(_)
keysOf(set) ==
    IF set = {} THEN <<>>
    ELSE LET kc == CHOOSE x \in set : \A y \in set : x <= y IN
         <<kc>> \o keysOf(set \ {kc})

\* clipboard contents: empty, what the user copied, a transcription
Empty == ""
Texts == {"t1"}
Platforms == {"linux", "darwin", "windows"}

VARIABLES
    cfg,          \* PresetService.cfg: [backend, presets, enabled, renamed,
                  \* theme]; theme stands for every global setting but backend
    disk,         \* config.json as config.Load / config.Save see it
    states,       \* PresetService.states; "" is a missing key
    recordingID,  \* PresetService.recordingID; None is ""
    sessionPress, \* the chord match whose press callback set recordingID; 0:
                  \* a direct call, or none
    audioActive,  \* AudioCapture.active
    audioSamples, \* len(AudioCapture.samples)
    recordTimer,  \* preset the timer in PresetService.recordTimer was armed for
    recLive,      \* that timer has neither fired nor been stopped
    staleTimers,  \* pending timers PresetService.recordTimer no longer points to
    engines,      \* PresetService.engines: preset id -> handle, 0 = no entry
    created,      \* number of WhisperEngine values created so far
    hBackend,     \* backend each handle was created with
    hPreset,      \* preset each handle was loaded for
    hOpen,        \* handles whose ctx is not nil
    usedIds,      \* preset ids uuid.New has already returned
    lastInstalled,\* backend id of the last completed onBackendInstalled
    th,           \* the goroutines: position and locals of each
    pressedKeys,  \* eventLoop's pressedKeys
    active,       \* ids with an entry in HotkeyManager.active
    bKeys,        \* hotkeyBinding.keys of each entry, <<>> without an entry
    bPressed,     \* ids whose binding has pressed = true
    regErr,       \* what the last call of Register returned
    capturing,    \* HotkeyManager.capturing
    captureKeys,  \* HotkeyManager.captureKeys
    captureCh,    \* HotkeyManager.captureCh: a channel number, 0 = nil
    chanBuf,      \* the buffer of each capture channel, capacity 1
    capDone,      \* channels whose CaptureHotkey call has returned
    matchNo,      \* chord matches of each binding so far
    pending,      \* callbacks dispatched with go, not yet running
    delivered,    \* callbacks that have started to run
    goos,         \* runtime.GOOS
    clip,         \* the system clipboard
    pst,          \* the goroutine inside pasteText
    pasteNo,      \* injections started so far
    restores,     \* restore goroutines that have not yet written
    finished,     \* injections that are over, with the clipboard they left
    unit          \* a part of the program exercised by itself: the value
                  \* it works on, its position, its results; None otherwise

orchVars == <<cfg, disk, states, recordingID, sessionPress, audioActive, audioSamples,
              recordTimer, recLive, staleTimers, engines, created, hBackend,
              hPreset, hOpen, usedIds, lastInstalled, th>>
keyVars == <<pressedKeys, active, bKeys, bPressed, regErr, capturing,
             captureKeys, captureCh, chanBuf, capDone, matchNo, pending,
             delivered>>
pasteVars == <<goos, clip, pst, pasteNo, restores, finished>>
vars == <<orchVars, keyVars, pasteVars, unit>>

\* pc: position; p: the preset id argument; n: the poll counter of
\* onHotkeyRelease, later len(samples); h: the engine in hand; c: the config
\* a Load returned; res: the result (the backend id inside the hot-swap);
\* again: the goroutine of UpdatePreset activates after it has deactivated;
\* i: chunks TranscribeLong has done; parts: their joined texts; failed: a
\* Transcribe call of this TranscribeLong returned an error; out: the result
\* after the hallucination gate; inj: the texts handed to pasteText; hist:
\* the calls of history.AddEntry; m: the chord match whose callback the
\* goroutine runs, 0 for any other caller
IdleThread == [pc |-> "idle", p |-> None, n |-> 0, h |-> 0, c |-> None,
               res |-> "none", again |-> FALSE, i |-> 0, parts |-> <<>>,
               failed |-> FALSE, out |-> <<>>, inj |-> <<>>, hist |-> 0,
               m |-> 0]
IdlePaste == [pc |-> "idle", text |-> Empty, saved |-> Empty, had |-> FALSE,
              no |-> 0]

Active(st) == {q \in PresetIds : st[q] \in {"recording", "processing"}}

\* findPresetByID(id) # nil
findPresetByID(p) == p \in cfg.presets

StaleCount == staleTimers["p1"] + staleTimers["p2"]

InitOrch ==
    /\ cfg = [backend |-> "cpu", presets |-> InitialPresets,
              enabled |-> InitialPresets, renamed |-> {}, theme |-> "dark"]
    /\ disk = [backend |-> "cpu", presets |-> InitialPresets,
               enabled |-> InitialPresets, renamed |-> {}, theme |-> "dark"]
    /\ states = [q \in PresetIds |-> IF q \in InitialPresets THEN "idle" ELSE ""]
    /\ recordingID = None
    /\ sessionPress = 0
    /\ audioActive = FALSE
    /\ audioSamples = 0
    /\ recordTimer = None
    /\ recLive = FALSE
    /\ staleTimers = [q \in PresetIds |-> 0]
    /\ engines = [q \in PresetIds |-> 0]
    /\ created = 0
    /\ hBackend = [h \in Handles |-> None]
    /\ hPreset = [h \in Handles |-> None]
    /\ hOpen = {}
    /\ usedIds = InitialPresets
    /\ lastInstalled = None
    /\ th = [t \in Threads |-> IdleThread]

\* NewHotkeyManager (hotkey.go 36-42), then Register for the enabled presets
InitKeys ==
    /\ pressedKeys = {}
    /\ active = InitialPresets
    /\ bKeys = [q \in PresetIds |->
                   IF q \in InitialPresets THEN parseHotkeyStr(Hotkey(q)).keys
                   ELSE <<>>]
    /\ bPressed = {}
    /\ regErr = None
    /\ capturing = FALSE
    /\ captureKeys = {}
    /\ captureCh = 0
    /\ chanBuf = [c \in 1 .. MaxCaptures + 1 |-> <<>>]
    /\ capDone = {}
    /\ matchNo = [q \in PresetIds |-> 0]
    /\ pending = {}
    /\ delivered = {}

InitPaste ==
    /\ goos \in Platforms
    /\ clip \in {Empty, "PREV"}
    /\ pst = IdlePaste
    /\ pasteNo = 0
    /\ restores = {}
    /\ finished = {}

Init ==
    /\ InitOrch
    /\ InitKeys
    /\ InitPaste /\ goos = "linux" /\ clip = "PREV"
    /\ unit = None

\* the frame of a step of the orchestrator, the hotkey manager or the
\* injector leaves the part exercised by itself alone
UnchangedKeys == UNCHANGED <<keyVars, unit>>
UnchangedPaste == UNCHANGED <<pasteVars, unit>>
UnchangedOrch == UNCHANGED <<orchVars, unit>>
\* the frame of a step of a part exercised by itself
UnchangedProgram == UNCHANGED <<orchVars, keyVars, pasteVars>>
\* the program as it starts
InitProgram == InitOrch /\ InitKeys /\ InitPaste /\ goos = "linux" /\ clip = "PREV"

(* ---------------------------- goroutine steps --------------------------- *)
Goto(t, pc) == th' = [th EXCEPT ![t].pc = pc]
\* the operation returns res to its caller
Finish(t, res) ==
    th' = [th EXCEPT ![t] = [IdleThread EXCEPT !.pc = "done", !.p = th[t].p,
                                               !.res = res]]

UnchangedAudio == UNCHANGED <<audioActive, audioSamples>>
UnchangedTimers == UNCHANGED <<recordTimer, recLive, staleTimers>>
UnchangedEngines == UNCHANGED <<engines, created, hBackend, hPreset, hOpen>>
UnchangedConfig ==
    UNCHANGED <<cfg, disk, usedIds, lastInstalled>> /\ UnchangedKeys /\ UnchangedPaste
Quiet == UNCHANGED <<cfg, disk, states, recordingID, sessionPress, audioActive, audioSamples,
                     recordTimer, recLive, staleTimers, engines, created,
                     hBackend, hPreset, hOpen, usedIds, lastInstalled>>
         /\ UnchangedKeys /\ UnchangedPaste

\* a goroutine enters an operation of the orchestrator
Enter(t, p, pc) ==
    /\ th[t].pc = "idle"
    /\ th' = [th EXCEPT ![t] = [IdleThread EXCEPT !.pc = pc, !.p = p]]

\* the caller takes the result; the goroutine ends
Return(t) ==
    /\ th[t].pc = "done"
    /\ th' = [th EXCEPT ![t] = IdleThread]
    /\ Quiet

(* ------------------------- StartRecording ------------------------------ *)
\* the busy test StartRecording had before: another preset is recording
StartBusyOtherRecording(p) ==
    \E q \in PresetIds : states[q] = "recording" /\ q # p

\* a busy test that lets a preset start over itself
StartBusyOther(p) ==
    \E q \in PresetIds : states[q] \in {"recording", "processing"} /\ q # p

\* preset.go 329-334: some preset is recording or processing
StartBusy(p) == \E q \in PresetIds : states[q] \in {"recording", "processing"}

\* preset.go 323-351: the busy test and the write of "recording", one
\* critical section
SR_check(t) ==
    /\ th[t].pc = "sr_check"
    /\ LET p == th[t].p IN
       IF StartBusy(p)
       THEN Finish(t, "busy") /\ UNCHANGED <<states, recordingID, sessionPress>>
       ELSE IF ~findPresetByID(p)
       THEN Finish(t, "notfound") /\ UNCHANGED <<states, recordingID, sessionPress>>
       ELSE /\ states' = [states EXCEPT ![p] = "recording"]
            /\ recordingID' = p
            /\ sessionPress' = th[t].m
            /\ Goto(t, "sr_audio")
    /\ UnchangedAudio /\ UnchangedTimers /\ UnchangedEngines /\ UnchangedConfig

\* audio.go 37-95, called at preset.go 354: a no-op on an active capturer,
\* otherwise the device opens or fails to
AudioStart(t) ==
    /\ th[t].pc = "sr_audio"
    /\ \/ /\ audioActive
          /\ UnchangedAudio
          /\ Goto(t, "sr_timer")
       \/ /\ ~audioActive
          /\ audioActive' = TRUE
          /\ audioSamples' = 0
          /\ Goto(t, "sr_timer")
       \/ /\ ~audioActive
          /\ audioSamples' = 0
          /\ UNCHANGED audioActive
          /\ Goto(t, "sr_revert")
    /\ UnchangedTimers /\ UnchangedEngines /\ UnchangedConfig
    /\ UNCHANGED <<states, recordingID, sessionPress>>

\* a failed audio start that returns the error without the revert
SR_giveUp(t) ==
    /\ th[t].pc = "sr_revert"
    /\ Finish(t, "audiofail")
    /\ UNCHANGED <<states, recordingID, sessionPress>>
    /\ UnchangedAudio /\ UnchangedTimers /\ UnchangedEngines /\ UnchangedConfig

\* preset.go 355-359: the revert after a failed audio start
SR_revert(t) ==
    /\ th[t].pc = "sr_revert"
    /\ states' = [states EXCEPT ![th[t].p] = "idle"]
    /\ recordingID' = None
    /\ sessionPress' = 0
    /\ Finish(t, "audiofail")
    /\ UnchangedAudio /\ UnchangedTimers /\ UnchangedEngines /\ UnchangedConfig

\* preset.go 365-374: time.AfterFunc arms a new timer; the timer
\* s.recordTimer pointed to stays pending
SR_timer(t) ==
    /\ th[t].pc = "sr_timer"
    /\ staleTimers' = IF recordTimer # None /\ recLive
                      THEN [staleTimers EXCEPT ![recordTimer] = @ + 1]
                      ELSE staleTimers
    /\ recordTimer' = th[t].p
    /\ recLive' = TRUE
    /\ Finish(t, "ok")
    /\ UnchangedAudio /\ UnchangedEngines /\ UnchangedConfig
    /\ UNCHANGED <<states, recordingID, sessionPress>>

(* -------------------------- StopRecording ------------------------------ *)
\* a test that lets StopRecording through in any state
NeverRefused(p) == FALSE

\* preset.go 380: the preset is not recording
NotRecording(p) == states[p] # "recording"

\* a revert that leaves the state as it is
stateKept(p) == states

\* preset.go 412, 424, 462, 495: s.states[presetID] = "idle"
stateIdle(p) == [states EXCEPT ![p] = "idle"]

\* preset.go 379-402, with audio.Stop (audio.go 98-117) inside the critical
\* section
ST_begin(t) ==
    /\ th[t].pc = "st_begin"
    /\ LET p == th[t].p IN
       IF NotRecording(p)
       THEN /\ Finish(t, "empty")
            /\ UNCHANGED <<states, recordingID, sessionPress>>
            /\ UnchangedAudio /\ UnchangedTimers
       ELSE /\ recordTimer' = None
            /\ recLive' = FALSE
            /\ UNCHANGED staleTimers
            /\ audioActive' = FALSE
            /\ audioSamples' = 0
            /\ recordingID' = None
            /\ sessionPress' = 0
            /\ IF findPresetByID(p)
               THEN /\ states' = [states EXCEPT ![p] = "processing"]
                    /\ th' = [th EXCEPT ![t].pc = "st_pipe",
                                        ![t].n = IF audioActive THEN audioSamples ELSE 0]
               ELSE /\ states' = [states EXCEPT ![p] = "idle"]
                    /\ Finish(t, "err")
    /\ UnchangedEngines /\ UnchangedConfig

\* a length test that rejects a recording of exactly minSamples
tooShortInclusive(n) == n <= minSamples

\* preset.go 409: len(samples) < minSamples
tooShort(n) == n < minSamples

\* preset.go 409-416 (too short) and, for a long enough recording, the cache
\* lookup of getOrLoadEngine (preset.go 620-626)
ST_pipe(t) ==
    /\ th[t].pc = "st_pipe"
    /\ LET p == th[t].p IN
       IF tooShort(th[t].n)
       THEN /\ states' = stateIdle(p)
            /\ Finish(t, "empty")
       ELSE /\ UNCHANGED states
            /\ IF engines[p] # 0
               THEN th' = [th EXCEPT ![t].pc = "st_transcribe", ![t].h = engines[p]]
               ELSE Goto(t, "ge_load")
    /\ UnchangedAudio /\ UnchangedTimers /\ UnchangedEngines /\ UnchangedConfig
    /\ UNCHANGED <<recordingID, sessionPress>>

\* preset.go 628-642: findModel, then NewWhisperEngine with the backend read
\* from s.cfg outside the lock
NewWhisperEngine(t, pc) ==
    /\ created < MaxHandles
    /\ created' = created + 1
    /\ hBackend' = [hBackend EXCEPT ![created + 1] = cfg.backend]
    /\ hPreset' = [hPreset EXCEPT ![created + 1] = th[t].p]
    /\ hOpen' = hOpen \cup {created + 1}
    /\ th' = [th EXCEPT ![t].pc = pc, ![t].h = created + 1]

\* getOrLoadEngine inside StopRecording; when it fails the pipeline reverts
\* to idle and returns the error envelope (preset.go 421-428)
GE_load(t) ==
    /\ th[t].pc = "ge_load"
    /\ \/ /\ NewWhisperEngine(t, "ge_store")
          /\ UNCHANGED states
       \/ /\ UNCHANGED <<created, hBackend, hPreset, hOpen>>
          /\ Finish(t, "err")
          /\ states' = stateIdle(th[t].p)
    /\ UnchangedAudio /\ UnchangedTimers /\ UnchangedConfig
    /\ UNCHANGED <<engines, recordingID, sessionPress>>

\* preset.go 644-649
GE_store(t) ==
    /\ th[t].pc = "ge_store"
    /\ engines' = [engines EXCEPT ![th[t].p] = th[t].h]
    /\ Goto(t, "st_transcribe")
    /\ UnchangedAudio /\ UnchangedTimers /\ UnchangedConfig
    /\ UNCHANGED <<states, recordingID, sessionPress, created, hBackend, hPreset, hOpen>>

(* texts are sequences of tokens: a blank, a noise marker, a canned phrase,
   a short word and ordinary speech *)
NoiseMarkers == {"[music]"}
Punctuation == {" ", "..."}
Phrases == {"bye"}
\* what whisper_full leaves in the segments of one chunk (whisper.go 141-153)
RawOutputs == {<<>>, <<" ", "[music]">>, <<" ", "bye">>, <<" ", "hello">>}

\* len([]rune(w)) of a token
runeCount(w) ==
    CASE w = "hi" -> 2
      [] w = "bye" -> 3
      [] w = "..." -> 3
      [] w = "hello" -> 5
      [] w = "[music]" -> 7
      [] OTHER -> 1

RECURSIVE runes(_)
runes(text) == IF text = <<>> THEN 0 ELSE runeCount(Head(text)) + runes(Tail(text))

Brackets == {"[", "]"}
notPunctuation(w) == w \notin Punctuation

\* whisper.go 199: where the match of \[[^\[\]]+\] that starts with the
\* bracket at the head of the text ends, 0 if there is none; a piece of
\* NoiseMarkers is a whole marker, brackets included
closing(text) ==
    LET ks == {k \in 2..Len(text) : text[k] \in Brackets \cup NoiseMarkers} IN
    IF ks = {} THEN 0
    ELSE LET j == CHOOSE k \in ks : \A i \in ks : k <= i IN
         IF text[j] = "]" /\ j > 2 THEN j ELSE 0

\* a replacement with the greedy pattern \[.+\]: everything from the first
\* opening bracket to the last closing one goes
ReplaceAllGreedy(text) ==
    LET opens == {k \in DOMAIN text : text[k] \in {"["} \cup NoiseMarkers}
        closes == {k \in DOMAIN text : text[k] \in {"]"} \cup NoiseMarkers}
    IN  IF opens = {} \/ closes = {} THEN text
        ELSE LET i == CHOOSE k \in opens : \A j \in opens : k <= j
                 j == CHOOSE k \in closes : \A i2 \in closes : i2 <= k
             IN  IF j > i \/ (j = i /\ text[i] \in NoiseMarkers)
                 THEN SubSeq(text, 1, i - 1) \o SubSeq(text, j + 1, Len(text))
                 ELSE text

\* whisper.go 203: whisperNoiseRe.ReplaceAllString(text, ""), the matches
\* taken from the left
RECURSIVE ReplaceAllString(_)
ReplaceAllString(text) ==
    IF text = <<>> THEN text
    ELSE IF Head(text) \in NoiseMarkers THEN ReplaceAllString(Tail(text))
    ELSE IF Head(text) = "[" /\ closing(text) > 0
         THEN ReplaceAllString(SubSeq(text, closing(text) + 1, Len(text)))
    ELSE <<Head(text)>> \o ReplaceAllString(Tail(text))

\* whisper.go 202-206
cleanWhisperOutput(text) == TrimSpace(ReplaceAllString(text))

\* whisper.go 190-194: append a non-empty part; strings.Join(parts, " ")
Join(parts, text) ==
    IF text = <<>> THEN parts
    ELSE IF parts = <<>> THEN text
    ELSE parts \o <<Space>> \o text

\* a chunk count that forgets the last, shorter chunk
totalChunksFloor(n) == n \div chunkSamples

\* whisper.go 162
totalChunks(n) == (n + chunkSamples - 1) \div chunkSamples

\* a gate that flags nothing
neverHallucination(text) == FALSE

\* a gate whose length test is turned round: it flags the long texts
isHallucinationLong(text) ==
    IF text = <<>> THEN FALSE
    ELSE LET lower == TrimSpace(text)
             cleaned == SelectSeq(lower, notPunctuation) IN
         \/ cleaned = <<>>
         \/ \E k \in DOMAIN lower : lower[k] \in Phrases
         \/ runes(cleaned) >= 3

\* preset.go 676-732
isHallucination(text) ==
    IF text = <<>> THEN FALSE
    ELSE LET lower == TrimSpace(text)
             cleaned == SelectSeq(lower, notPunctuation) IN
         \/ cleaned = <<>>
         \/ \E k \in DOMAIN lower : lower[k] \in Phrases
         \/ runes(cleaned) <= 3

\* preset.go 459-466 with whisper.go 161-195: one Transcribe call of
\* TranscribeLong on the handle in hand (whisper.go 102-108: a closed handle
\* answers with an error).  A recording of one chunk returns the error, and
\* StopRecording reverts (preset.go 460-466); in a recording of several
\* chunks a failed chunk is skipped (whisper.go 186-188)
ST_transcribe(t) ==
    /\ th[t].pc = "st_transcribe"
    /\ LET total == totalChunks(th[t].n)
           after == IF th[t].i + 1 >= total THEN "st_gate" ELSE "st_transcribe" IN
       \/ /\ th[t].h \in hOpen
          /\ \E raw \in RawOutputs :
                th' = [th EXCEPT ![t].pc = after,
                                 ![t].i = @ + 1,
                                 ![t].parts = IF total <= 1
                                              THEN cleanWhisperOutput(raw)
                                              ELSE Join(@, cleanWhisperOutput(raw))]
          /\ UNCHANGED states
       \/ /\ total <= 1
          /\ Finish(t, "err")
          /\ states' = stateIdle(th[t].p)
       \/ /\ total > 1
          /\ th' = [th EXCEPT ![t].pc = after, ![t].i = @ + 1, ![t].failed = TRUE]
          /\ UNCHANGED states
    /\ UnchangedAudio /\ UnchangedTimers /\ UnchangedEngines /\ UnchangedConfig
    /\ UNCHANGED <<recordingID, sessionPress>>

\* preset.go 468-485: trim, the hallucination gate, then pasteText and
\* history.AddEntry for a result that is not empty; parts keeps the trimmed
\* text
ST_gate(t) ==
    /\ th[t].pc = "st_gate"
    /\ LET text == TrimSpace(th[t].parts)
           result == IF isHallucination(text) THEN <<>> ELSE text IN
       th' = [th EXCEPT ![t].pc = "st_finish",
                        ![t].parts = text,
                        ![t].out = result,
                        ![t].inj = IF result # <<>> THEN <<result>> ELSE <<>>,
                        ![t].hist = IF result # <<>> /\ KeepHistory(th[t].p)
                                    THEN 1 ELSE 0]
    /\ Quiet

\* preset.go 488-500
ST_finish(t) ==
    /\ th[t].pc = "st_finish"
    /\ LET p == th[t].p IN
       /\ IF ~KeepModelLoaded(p) /\ engines[p] # 0
          THEN /\ hOpen' = hOpen \ {engines[p]}
               /\ engines' = [engines EXCEPT ![p] = 0]
          ELSE UNCHANGED <<hOpen, engines>>
       /\ states' = stateIdle(p)
       /\ Finish(t, IF th[t].out = <<>> THEN "empty" ELSE "text")
    /\ UnchangedAudio /\ UnchangedTimers /\ UnchangedConfig
    /\ UNCHANGED <<created, hBackend, hPreset, recordingID, sessionPress>>

(* --------------------------- hotkey handlers --------------------------- *)
\* preset.go 121-137: the mode lookup of onHotkeyPress
HP_begin(t) ==
    /\ th[t].pc = "hp_begin"
    /\ IF ~findPresetByID(th[t].p) THEN Finish(t, "none")
       ELSE IF InputMode(th[t].p) = "hold" THEN Goto(t, "sr_check")
       ELSE Goto(t, "hp_toggle")
    /\ Quiet

\* preset.go 138-150: toggle mode reads the state, then stops or starts
HP_toggle(t) ==
    /\ th[t].pc = "hp_toggle"
    /\ IF states[th[t].p] = "recording" THEN Goto(t, "st_begin")
       ELSE Goto(t, "sr_check")
    /\ Quiet

\* preset.go 155-166: onHotkeyRelease acts in hold mode only
HR_begin(t) ==
    /\ th[t].pc = "hr_begin"
    /\ IF findPresetByID(th[t].p) /\ InputMode(th[t].p) = "hold"
       THEN Goto(t, "hr_poll")
       ELSE Finish(t, "none")
    /\ Quiet

\* a release handler that calls StopRecording whatever state it read
HR_stopAnyway(t) == th' = [th EXCEPT ![t].pc = "st_begin", ![t].n = 0]

\* preset.go 170-188: one pass of the polling loop, th[t].n passes done
\* before; after pollLimit passes without "recording" the handler returns
HR_pollOnce(t) ==
    IF states[th[t].p] = "recording"
    THEN th' = [th EXCEPT ![t].pc = "st_begin", ![t].n = 0]
    ELSE IF th[t].n + 1 < pollLimit
    THEN th' = [th EXCEPT ![t].n = @ + 1]
    ELSE Finish(t, "silent")

HR_poll(t) ==
    /\ th[t].pc = "hr_poll"
    /\ HR_pollOnce(t)
    /\ Quiet

(* -------------------------------- timers -------------------------------- *)
\* preset.go 366-371: the timer s.recordTimer points to fires and runs
\* StopRecording(presetID) in a goroutine of its own
FireRecordTimer(t) ==
    /\ recordTimer # None /\ recLive
    /\ recLive' = FALSE
    /\ Enter(t, recordTimer, "st_begin")
    /\ UNCHANGED <<states, recordingID, sessionPress, recordTimer, staleTimers>>
    /\ UnchangedAudio /\ UnchangedEngines /\ UnchangedConfig

\* the same for a pending timer that s.recordTimer no longer points to
FireStaleTimer(t, p) ==
    /\ staleTimers[p] > 0
    /\ staleTimers' = [staleTimers EXCEPT ![p] = @ - 1]
    /\ Enter(t, p, "st_begin")
    /\ UNCHANGED <<states, recordingID, sessionPress, recordTimer, recLive>>
    /\ UnchangedAudio /\ UnchangedEngines /\ UnchangedConfig

(* ----------------------------- audio device ----------------------------- *)
\* audio.go 61-76: the device callback appends a frame while active
onRecvFrames ==
    /\ audioActive
    /\ audioSamples < MaxFrames * FrameLen
    /\ audioSamples' = audioSamples + FrameLen
    /\ UNCHANGED <<states, recordingID, sessionPress, audioActive, th>>
    /\ UnchangedTimers /\ UnchangedEngines /\ UnchangedConfig

\* the device callbacks of a long recording: chunkSamples samples more
onRecvBurst ==
    /\ audioActive
    /\ audioSamples < MaxBursts * chunkSamples
    /\ audioSamples' = audioSamples + chunkSamples
    /\ UNCHANGED <<states, recordingID, sessionPress, audioActive, th>>
    /\ UnchangedTimers /\ UnchangedEngines /\ UnchangedConfig

(* ------------------------------ preset CRUD ----------------------------- *)
\* preset.go 199-216 for a preset with Enabled = false: uuid.New yields an
\* id never used before; nothing is activated
CreatePreset(p) ==
    /\ p \notin usedIds
    /\ ~KeepModelLoaded(p)
    /\ usedIds' = usedIds \cup {p}
    /\ cfg' = [cfg EXCEPT !.presets = @ \cup {p}]
    /\ states' = [states EXCEPT ![p] = "idle"]
    /\ disk' = cfg'
    /\ UnchangedAudio /\ UnchangedTimers /\ UnchangedEngines
    /\ UnchangedKeys /\ UnchangedPaste
    /\ UNCHANGED <<lastInstalled, recordingID, sessionPress, th>>

\* preset.go 199-216 for a preset with Enabled = true: activatePreset
\* follows in a goroutine
CreatePresetEnabled(t, p) ==
    /\ p \notin usedIds
    /\ usedIds' = usedIds \cup {p}
    /\ cfg' = [cfg EXCEPT !.presets = @ \cup {p}, !.enabled = @ \cup {p}]
    /\ states' = [states EXCEPT ![p] = "idle"]
    /\ disk' = cfg'
    /\ Enter(t, p, "register")
    /\ UnchangedAudio /\ UnchangedTimers /\ UnchangedEngines
    /\ UnchangedKeys /\ UnchangedPaste
    /\ UNCHANGED <<lastInstalled, recordingID, sessionPress>>

\* preset.go 237-244: what the goroutine of UpdatePreset starts with, for
\* the old and the new Enabled flag
updateTask(old, new) ==
    IF old THEN "unregister" ELSE IF new THEN "register" ELSE "idle"

\* a variant of reactivates that answers yes to every update
reactivatesAlways(old, enabled, changed) == TRUE

\* preset.go 227-235: hotkeyChanged || modelChanged, the condition under
\* which UpdatePreset starts its goroutine; of the fields compared, the
\* Enabled flag is the one the program state holds
reactivates(old, enabled, changed) == old # enabled \/ changed

\* preset.go 219-248: the preset gets the Enabled flag given; changed says
\* that one of the other fields UpdatePreset compares (Hotkey, InputMode,
\* ModelName, KeepModelLoaded) differs from the old one, renamed that its
\* display name is edited (a field UpdatePreset does not compare)
UpdatePreset(t, p, enabled, changed, renamed) ==
    /\ p \in cfg.presets
    /\ th[t].pc = "idle"
    /\ cfg' = [cfg EXCEPT !.enabled = IF enabled THEN @ \cup {p} ELSE @ \ {p},
                          !.renamed = IF renamed THEN @ \cup {p} ELSE @ \ {p}]
    /\ disk' = cfg'
    /\ LET old == p \in cfg.enabled IN
       IF reactivates(old, enabled, changed) /\ updateTask(old, enabled) # "idle"
       THEN th' = [th EXCEPT ![t] = [IdleThread EXCEPT
                                        !.pc = updateTask(old, enabled),
                                        !.p = p,
                                        !.again = old /\ enabled]]
       ELSE UNCHANGED th
    /\ UnchangedAudio /\ UnchangedTimers /\ UnchangedEngines
    /\ UnchangedKeys /\ UnchangedPaste
    /\ UNCHANGED <<states, usedIds, lastInstalled, recordingID, sessionPress>>

\* preset.go 252-265: the critical section of DeletePreset; deactivatePreset
\* follows in a goroutine
DeletePreset(t, p) ==
    /\ p \in cfg.presets
    /\ states' = [states EXCEPT ![p] = ""]
    /\ cfg' = [cfg EXCEPT !.presets = @ \ {p}, !.enabled = @ \ {p},
                          !.renamed = @ \ {p}]
    /\ disk' = cfg'
    /\ Enter(t, p, "unregister")
    /\ UnchangedAudio /\ UnchangedTimers /\ UnchangedEngines
    /\ UnchangedKeys /\ UnchangedPaste
    /\ UNCHANGED <<usedIds, lastInstalled, recordingID, sessionPress>>

\* preset.go 270-292: SetPresetEnabled saves and activates or deactivates in
\* a goroutine
SetPresetEnabled(t, p, enabled) ==
    /\ p \in cfg.presets
    /\ cfg' = [cfg EXCEPT !.enabled = IF enabled THEN @ \cup {p} ELSE @ \ {p}]
    /\ disk' = cfg'
    /\ Enter(t, p, IF enabled THEN "register" ELSE "unregister")
    /\ UnchangedAudio /\ UnchangedTimers /\ UnchangedEngines
    /\ UnchangedKeys /\ UnchangedPaste
    /\ UNCHANGED <<states, usedIds, lastInstalled, recordingID, sessionPress>>

\* hotkey.go 94: the map with an entry for id
registered(id) == active \cup {id}

\* a Register that stores the binding whatever the parser said
registerUnchecked(id, str) ==
    LET r == parseHotkeyStr(str) IN
    /\ regErr' = r.err
    /\ active' = registered(id)
    /\ bKeys' = [bKeys EXCEPT ![id] = r.keys]
    /\ bPressed' = bPressed \ {id}

\* hotkey.go 85-97: a chord that does not parse is an error and nothing
\* else; otherwise the entry of id is a fresh binding, pressed = false
register(id, str) ==
    LET r == parseHotkeyStr(str) IN
    /\ regErr' = r.err
    /\ IF r.err # None THEN UNCHANGED <<active, bKeys, bPressed>>
       ELSE /\ active' = registered(id)
            /\ bKeys' = [bKeys EXCEPT ![id] = r.keys]
            /\ bPressed' = bPressed \ {id}

\* hotkey.go 100-105: delete(m.active, presetID)
unregister(id) ==
    /\ active' = active \ {id}
    /\ bKeys' = [bKeys EXCEPT ![id] = <<>>]
    /\ bPressed' = bPressed \ {id}

\* preset.go 94-98: activatePreset registers the chord
AP_register(t) ==
    /\ th[t].pc = "register"
    /\ register(th[t].p, Hotkey(th[t].p))
    /\ Goto(t, "activate")
    /\ UNCHANGED <<pressedKeys, capturing, captureKeys, captureCh, chanBuf,
                   capDone, matchNo, pending, delivered>>
    /\ UNCHANGED <<cfg, disk, states, recordingID, sessionPress, usedIds, lastInstalled>>
    /\ UnchangedAudio /\ UnchangedTimers /\ UnchangedEngines /\ UnchangedPaste

\* preset.go 109-111: deactivatePreset unregisters the chord (hotkey.go
\* 100-105)
DP_unregister(t) ==
    /\ th[t].pc = "unregister"
    /\ unregister(th[t].p)
    /\ Goto(t, "deactivate")
    /\ UNCHANGED <<regErr, pressedKeys, capturing, captureKeys, captureCh, chanBuf,
                   capDone, matchNo, pending, delivered>>
    /\ UNCHANGED <<cfg, disk, states, recordingID, sessionPress, usedIds, lastInstalled>>
    /\ UnchangedAudio /\ UnchangedTimers /\ UnchangedEngines /\ UnchangedPaste

\* preset.go 99-103 with the cache lookup of getOrLoadEngine (620-626)
activatePreset(t) ==
    /\ th[t].pc = "activate"
    /\ IF KeepModelLoaded(th[t].p) /\ engines[th[t].p] = 0
       THEN Goto(t, "pre_load")
       ELSE Finish(t, "ok")
    /\ Quiet

\* getOrLoadEngine inside activatePreset; a failure is logged (preset.go
\* 100-102)
PRE_load(t) ==
    /\ th[t].pc = "pre_load"
    /\ \/ NewWhisperEngine(t, "pre_store")
       \/ /\ UNCHANGED <<created, hBackend, hPreset, hOpen>>
          /\ Finish(t, "err")
    /\ UnchangedAudio /\ UnchangedTimers /\ UnchangedConfig
    /\ UNCHANGED <<engines, states, recordingID, sessionPress>>

\* preset.go 644-649, reached from activatePreset
PRE_store(t) ==
    /\ th[t].pc = "pre_store"
    /\ engines' = [engines EXCEPT ![th[t].p] = th[t].h]
    /\ Finish(t, "ok")
    /\ UnchangedAudio /\ UnchangedTimers /\ UnchangedConfig
    /\ UNCHANGED <<states, recordingID, sessionPress, created, hBackend, hPreset, hOpen>>

\* preset.go 112-117: deactivatePreset closes and drops the engine; the
\* goroutine of UpdatePreset goes on to activatePreset (preset.go 241-243)
deactivatePreset(t) ==
    /\ th[t].pc = "deactivate"
    /\ LET p == th[t].p IN
       IF engines[p] # 0
       THEN /\ hOpen' = hOpen \ {engines[p]}
            /\ engines' = [engines EXCEPT ![p] = 0]
       ELSE UNCHANGED <<hOpen, engines>>
    /\ IF th[t].again
       THEN th' = [th EXCEPT ![t].pc = "register", ![t].again = FALSE]
       ELSE Finish(t, "ok")
    /\ UnchangedAudio /\ UnchangedTimers /\ UnchangedConfig
    /\ UNCHANGED <<states, recordingID, sessionPress, created, hBackend, hPreset>>

(* ------------------------- config and hot-swap -------------------------- *)
\* config.Load: the goroutine takes a copy of the file
ConfigLoad(t, from, to) ==
    /\ th[t].pc = from
    /\ th' = [th EXCEPT ![t].pc = to, ![t].c = disk]
    /\ Quiet

\* preset.go 590-594: config.Load of ReloadConfig
RL_load(t) == ConfigLoad(t, "rl_load", "rl_assign")

\* preset.go 595-598
RL_assign(t) ==
    /\ th[t].pc = "rl_assign"
    /\ cfg' = th[t].c
    /\ Finish(t, "ok")
    /\ UnchangedAudio /\ UnchangedTimers /\ UnchangedEngines
    /\ UnchangedKeys /\ UnchangedPaste
    /\ UNCHANGED <<disk, states, usedIds, lastInstalled, recordingID, sessionPress>>

\* settings.go 85-120: SaveGlobalSettings(gs) loads the file, sets the global
\* fields and saves; the backend of gs is the one the file has (otherwise
\* onBackendChanged follows); the theme travels in res
Themes == {"dark", "light"}

CallSaveGlobalSettings(t, v) ==
    /\ th[t].pc = "idle"
    /\ th' = [th EXCEPT ![t] = [IdleThread EXCEPT !.pc = "gs_load", !.res = v]]
    /\ Quiet

\* settings.go 86
GS_load(t) == ConfigLoad(t, "gs_load", "gs_save")

\* settings.go 92-103
GS_save(t) ==
    /\ th[t].pc = "gs_save"
    /\ disk' = [th[t].c EXCEPT !.theme = th[t].res]
    /\ Finish(t, "ok")
    /\ UnchangedAudio /\ UnchangedTimers /\ UnchangedEngines
    /\ UnchangedKeys /\ UnchangedPaste
    /\ UNCHANGED <<cfg, states, usedIds, lastInstalled, recordingID, sessionPress>>

\* preset.go 577-585, called at main.go 54
FlushEngines(t) ==
    /\ th[t].pc = "flush"
    /\ hOpen' = hOpen \ {engines[q] : q \in PresetIds}
    /\ engines' = [q \in PresetIds |-> 0]
    /\ Goto(t, "bi_load")
    /\ UnchangedAudio /\ UnchangedTimers /\ UnchangedConfig
    /\ UNCHANGED <<states, recordingID, sessionPress, created, hBackend, hPreset>>

\* main.go 55: config.Load
BI_load(t) == ConfigLoad(t, "bi_load", "bi_save")

\* main.go 56-57: cfg.Backend = backendID; config.Save
BI_save(t) ==
    /\ th[t].pc = "bi_save"
    /\ disk' = [th[t].c EXCEPT !.backend = th[t].res]
    /\ th' = [th EXCEPT ![t].pc = "bi_reload", ![t].c = None]
    /\ UnchangedAudio /\ UnchangedTimers /\ UnchangedEngines
    /\ UnchangedKeys /\ UnchangedPaste
    /\ UNCHANGED <<cfg, states, usedIds, lastInstalled, recordingID, sessionPress>>

\* main.go 58: ReloadConfig, its Load
BI_reload(t) == ConfigLoad(t, "bi_reload", "bi_assign")

\* main.go 58-60: ReloadConfig, its assignment; the callback returns
BI_assign(t) ==
    /\ th[t].pc = "bi_assign"
    /\ cfg' = th[t].c
    /\ lastInstalled' = th[t].res
    /\ Finish(t, "ok")
    /\ UnchangedAudio /\ UnchangedTimers /\ UnchangedEngines
    /\ UnchangedKeys /\ UnchangedPaste
    /\ UNCHANGED <<disk, states, usedIds, recordingID, sessionPress>>

(* ------------------------------ entry points ---------------------------- *)
\* the ids a caller can name: those of presets that exist or existed
Known == usedIds

Pollers == {t \in Threads : th[t].pc \in {"hr_begin", "hr_poll"}}

CallStartRecording(t, p) ==
    /\ StaleCount < MaxStale
    /\ Enter(t, p, "sr_check")
    /\ Quiet

CallStopRecording(t, p) ==
    /\ Enter(t, p, "st_begin")
    /\ Quiet

\* the press callback starts to run (dispatched at hotkey.go 184)
GoOnPress(t, p) ==
    /\ StaleCount < MaxStale
    /\ Enter(t, p, "hp_begin")
    /\ Quiet

\* the release callback starts to run (dispatched at hotkey.go 203)
GoOnRelease(t, p) ==
    /\ Cardinality(Pollers) < MaxPollers
    /\ Enter(t, p, "hr_begin")
    /\ Quiet

CallReloadConfig(t) ==
    /\ Enter(t, None, "rl_load")
    /\ Quiet

\* backend_install_linux.go 39-41: onBackendInstalled(id); the id travels in res
CallBackendInstalled(t, b) ==
    /\ th[t].pc = "idle"
    /\ b # cfg.backend
    /\ lastInstalled = None
    /\ th' = [th EXCEPT ![t] = [IdleThread EXCEPT !.pc = "flush", !.res = b]]
    /\ Quiet

(* ----------------------------- hotkey manager --------------------------- *)
\* hotkey.go 269-279 for the binding of id
matchBinding(id, keys) ==
    /\ Len(bKeys[id]) # 0
    /\ \A k \in DOMAIN bKeys[id] : bKeys[id][k] \in keys

\* a key-up test that forgets the pressed flag
releaseUnpressed(id, keys) == ~matchBinding(id, keys)

\* hotkey.go 182: the binding starts to match
pressFires(id, keys) == id \notin bPressed /\ matchBinding(id, keys)
\* hotkey.go 201: the binding stops matching
releaseFires(id, keys) == id \in bPressed /\ ~matchBinding(id, keys)

Callback(kind, id, m) == [kind |-> kind, id |-> id, m |-> m]
Dispatched == pending \cup delivered

\* m.capturing = false; m.captureKeys = nil; m.captureCh <- str
send(str) ==
    /\ capturing' = FALSE
    /\ captureKeys' = {}
    /\ chanBuf' = [chanBuf EXCEPT ![captureCh] = Append(@, str)]

\* hotkey.go 261-266
finishCapture(keys) == send(keysToString(keysOf(keys)))

\* hotkey.go 210-236
captureKeyDown(kc, keys) ==
    IF kc = kcEscape THEN send(<<>>)
    ELSE IF isModifier(kc)
    THEN /\ captureKeys' = captureKeys \cup {kc}
         /\ UNCHANGED <<capturing, chanBuf>>
    ELSE finishCapture(keys \ {kcEscape})

\* hotkey.go 240-259
captureKeyUp(kc, keys) ==
    IF captureKeys = {} \/ ~isModifier(kc) \/ captureKeys \cap keys # {}
    THEN UNCHANGED <<capturing, captureKeys, chanBuf>>
    ELSE finishCapture(captureKeys)

\* a key-down handler that matches bindings in capture mode as well
handleKeyDownAlways(kc) ==
    LET keys == pressedKeys \cup {kc}
        fire == {id \in active : pressFires(id, keys)} IN
    /\ pressedKeys' = keys
    /\ \A id \in fire : matchNo[id] < MaxMatches
    /\ bPressed' = bPressed \cup fire
    /\ matchNo' = [id \in PresetIds |->
                      IF id \in fire THEN matchNo[id] + 1 ELSE matchNo[id]]
    /\ pending' = pending \cup
                      {Callback("press", id, matchNo[id] + 1) : id \in fire}
    /\ UNCHANGED <<capturing, captureKeys, chanBuf>>
    /\ UNCHANGED <<active, bKeys, regErr, captureCh, capDone, delivered>>
    /\ UnchangedOrch /\ UnchangedPaste

\* hotkey.go 159-162 and 171-188: a key-down event; every binding that
\* starts to match gets its press callback dispatched
handleKeyDown(kc) ==
    LET keys == pressedKeys \cup {kc}
        fire == {id \in active : pressFires(id, keys)} IN
    /\ pressedKeys' = keys
    /\ IF capturing
       THEN /\ captureKeyDown(kc, keys)
            /\ UNCHANGED <<bPressed, matchNo, pending>>
       ELSE /\ \A id \in fire : matchNo[id] < MaxMatches
            /\ bPressed' = bPressed \cup fire
            /\ matchNo' = [id \in PresetIds |->
                              IF id \in fire THEN matchNo[id] + 1 ELSE matchNo[id]]
            /\ pending' = pending \cup
                              {Callback("press", id, matchNo[id] + 1) : id \in fire}
            /\ UNCHANGED <<capturing, captureKeys, chanBuf>>
    /\ UNCHANGED <<active, bKeys, regErr, captureCh, capDone, delivered>>
    /\ UnchangedOrch /\ UnchangedPaste

\* hotkey.go 164-167 and 190-207: a key-up event; every pressed binding
\* that no longer matches gets its release callback dispatched
handleKeyUp(kc) ==
    LET keys == pressedKeys \ {kc}
        fire == {id \in active : releaseFires(id, keys)} IN
    /\ pressedKeys' = keys
    /\ IF capturing
       THEN /\ captureKeyUp(kc, keys)
            /\ UNCHANGED <<bPressed, pending>>
       ELSE /\ bPressed' = bPressed \ fire
            /\ pending' = pending \cup
                              {Callback("release", id, matchNo[id]) : id \in fire}
            /\ UNCHANGED <<capturing, captureKeys, chanBuf>>
    /\ UNCHANGED <<active, bKeys, regErr, captureCh, capDone, matchNo, delivered>>
    /\ UnchangedOrch /\ UnchangedPaste

\* the goroutine of a dispatched callback starts to run
Deliver(cb) ==
    /\ cb \in pending
    /\ pending' = pending \ {cb}
    /\ delivered' = delivered \cup {cb}
    /\ UNCHANGED <<pressedKeys, active, bKeys, bPressed, regErr, capturing, captureKeys,
                   captureCh, chanBuf, capDone, matchNo>>
    /\ UnchangedOrch /\ UnchangedPaste

\* hotkey.go 85-97
Register(id, str) ==
    /\ register(id, str)
    /\ UNCHANGED <<pressedKeys, capturing, captureKeys, captureCh, chanBuf,
                   capDone, matchNo, pending, delivered>>
    /\ UnchangedOrch /\ UnchangedPaste

\* hotkey.go 100-105
Unregister(id) ==
    /\ id \in active
    /\ unregister(id)
    /\ UNCHANGED <<regErr, pressedKeys, capturing, captureKeys, captureCh, chanBuf,
                   capDone, matchNo, pending, delivered>>
    /\ UnchangedOrch /\ UnchangedPaste

\* hotkey.go 116-124: CaptureHotkey makes a channel, the next of the model,
\* and turns capture on
CaptureHotkey(c) ==
    /\ c = captureCh + 1
    /\ capturing' = TRUE
    /\ captureCh' = c
    /\ captureKeys' = {}
    /\ UNCHANGED <<pressedKeys, active, bKeys, bPressed, regErr, chanBuf, capDone, matchNo,
                   pending, delivered>>
    /\ UnchangedOrch /\ UnchangedPaste

\* hotkey.go 125-126: result := <-ch
CaptureReturn(c) ==
    /\ c \notin capDone
    /\ chanBuf[c] # <<>>
    /\ capDone' = capDone \cup {c}
    /\ UNCHANGED <<pressedKeys, active, bKeys, bPressed, regErr, capturing, captureKeys,
                   captureCh, chanBuf, matchNo, pending, delivered>>
    /\ UnchangedOrch /\ UnchangedPaste

\* hotkey.go 130-141
CancelCapture ==
    /\ capturing
    /\ send(<<>>)
    /\ UNCHANGED <<pressedKeys, active, bKeys, bPressed, regErr, captureCh, capDone, matchNo,
                   pending, delivered>>
    /\ UnchangedOrch /\ UnchangedPaste

(* ------------------------------- injection ------------------------------ *)
\* what the restore goroutine would write if it wrote the text back
textOf(r) == r.text

\* backend_install_darwin.go 96-101, 128-133, 160-165: the restore goroutine
\* writes the saved content
savedOf(r) == r.saved

\* saveClipboardLinux, saveClipboardDarwin, winClipRead: whether the read
\* yields a content (backend_install_darwin.go 172-183, 224-229,
\* paste_windows.go 69-92)
hadClipboard(os, content) == os = "darwin" \/ content # Empty

Outcome(how) ==
    [no |-> pst.no, how |-> how, orig |-> pst.saved, text |-> pst.text,
     clip |-> clip']

\* the outcomes in which the keystroke was not delivered
keystrokeFailed(how) == how \in {"keyfail", "fallback"}

\* the outcomes with which pasteText returns an error: the clipboard write
\* failed (backend_install_darwin.go 80-82, 112-114, 143-145) or, on Linux
\* and macOS, the keystroke did (88-90, 119-122)
pasteError(how) == how \in {"writefail", "keyfail"}

\* backend_install_darwin.go 59-63 and the save of 77, 107, 140: pasteText
\* returns at once for an empty text, otherwise reads the clipboard
pasteText(text) ==
    /\ pst.pc = "idle"
    /\ pasteNo < MaxPastes
    /\ pasteNo' = pasteNo + 1
    /\ UNCHANGED <<goos, clip, restores>>
    /\ IF text = Empty
       THEN /\ pst' = pst
            /\ finished' = finished \cup
                 {[no |-> pasteNo + 1, how |-> "noop", orig |-> clip,
                   text |-> text, clip |-> clip]}
       ELSE /\ pst' = [pc |-> "write", text |-> text, saved |-> clip,
                       had |-> hadClipboard(goos, clip), no |-> pasteNo + 1]
            /\ UNCHANGED finished
    /\ UnchangedOrch /\ UnchangedKeys

\* backend_install_darwin.go 80-82, 110-115, 143-145: the write of the text
\* succeeds or fails
writeClipboard ==
    /\ pst.pc = "write"
    /\ \/ /\ clip' = pst.text
          /\ pst' = [pst EXCEPT !.pc = "key"]
          /\ UNCHANGED finished
       \/ /\ clip' = clip
          /\ pst' = IdlePaste
          /\ finished' = finished \cup {Outcome("writefail")}
    /\ UNCHANGED <<goos, pasteNo, restores>>
    /\ UnchangedOrch /\ UnchangedKeys

\* backend_install_darwin.go 88-103, 120-135, 150-167: the keystroke; when
\* it fails the function returns (an error on Linux and macOS, nil on
\* Windows) before the restore is scheduled
simulatePaste ==
    /\ pst.pc = "key"
    /\ clip' = clip
    /\ pst' = IdlePaste
    /\ \/ /\ pst.had
          /\ restores' = restores \cup
                 {[no |-> pst.no, saved |-> pst.saved, text |-> pst.text]}
          /\ UNCHANGED finished
       \/ /\ ~pst.had
          /\ finished' = finished \cup {Outcome("norestore")}
          /\ UNCHANGED restores
       \/ /\ finished' = finished \cup
                 {Outcome(IF goos = "windows" THEN "fallback" ELSE "keyfail")}
          /\ UNCHANGED restores
    /\ UNCHANGED <<goos, pasteNo>>
    /\ UnchangedOrch /\ UnchangedKeys

\* the restore goroutine, 500 ms later; the error of its write is dropped
restoreClipboard(r) ==
    /\ r \in restores
    /\ restores' = restores \ {r}
    /\ \/ /\ clip' = savedOf(r)
          /\ finished' = finished \cup
                 {[no |-> r.no, how |-> "restored", orig |-> r.saved,
                   text |-> r.text, clip |-> clip']}
       \/ /\ clip' = clip
          /\ finished' = finished \cup
                 {[no |-> r.no, how |-> "restorefail", orig |-> r.saved,
                   text |-> r.text, clip |-> clip']}
    /\ UNCHANGED <<goos, pst, pasteNo>>
    /\ UnchangedOrch /\ UnchangedKeys

(* ----------------------------- specifications --------------------------- *)
\* the recording state machine under explicit calls, timers and preset CRUD
Next ==
    \/ \E t \in Threads : SR_check(t)
    \/ \E t \in Threads : AudioStart(t)
    \/ \E t \in Threads : SR_revert(t)
    \/ \E t \in Threads : SR_timer(t)
    \/ \E t \in Threads : ST_begin(t)
    \/ \E t \in Threads : ST_pipe(t)
    \/ \E t \in Threads : GE_load(t)
    \/ \E t \in Threads : GE_store(t)
    \/ \E t \in Threads : ST_transcribe(t)
    \/ \E t \in Threads : ST_gate(t)
    \/ \E t \in Threads : ST_finish(t)
    \/ \E t \in Threads : DP_unregister(t)
    \/ \E t \in Threads : deactivatePreset(t)
    \/ \E t \in Threads : Return(t)
    \/ \E t \in Threads, p \in Known : CallStartRecording(t, p)
    \/ \E t \in Threads, p \in Known : CallStopRecording(t, p)
    \/ \E t \in Threads : FireRecordTimer(t)
    \/ \E t \in Threads, p \in PresetIds : FireStaleTimer(t, p)
    \/ \E p \in PresetIds : CreatePreset(p)
    \/ \E t \in Threads, p \in PresetIds : DeletePreset(t, p)
    \/ onRecvFrames

Spec == Init /\ [][Next]_vars

\* StopRecording from its four callers (hold release, toggle press,
\* auto-stop timer, a call of the GUI) next to StartRecording
NextStop ==
    \/ \E t \in Threads : SR_check(t)
    \/ \E t \in Threads : AudioStart(t)
    \/ \E t \in Threads : SR_revert(t)
    \/ \E t \in Threads : SR_timer(t)
    \/ \E t \in Threads : ST_begin(t)
    \/ \E t \in Threads : ST_pipe(t)
    \/ \E t \in Threads : GE_load(t)
    \/ \E t \in Threads : GE_store(t)
    \/ \E t \in Threads : ST_transcribe(t)
    \/ \E t \in Threads : ST_gate(t)
    \/ \E t \in Threads : ST_finish(t)
    \/ \E t \in Threads : Return(t)
    \/ \E t \in Threads : HP_begin(t)
    \/ \E t \in Threads : HP_toggle(t)
    \/ \E t \in Threads : HR_begin(t)
    \/ \E t \in Threads : HR_poll(t)
    \/ \E t \in Threads, p \in Known : GoOnPress(t, p)
    \/ \E t \in Threads, p \in Known : GoOnRelease(t, p)
    \/ \E t \in Threads, p \in Known : CallStartRecording(t, p)
    \/ \E t \in Threads, p \in Known : CallStopRecording(t, p)
    \/ \E t \in Threads : FireRecordTimer(t)
    \/ \E t \in Threads, p \in PresetIds : FireStaleTimer(t, p)
    \/ \E p \in PresetIds : CreatePreset(p)
    \/ onRecvFrames

SpecStop == Init /\ [][NextStop]_vars

\* the hold-mode hotkey end to end: the chord of a binding goes down and up,
\* the manager dispatches the callbacks, and each callback goroutine runs
\* onHotkeyPress or onHotkeyRelease carrying the match it was dispatched for
\* hotkey.go 171-188: the keys of the chord of id go down; every binding
\* that starts to match gets its press callback dispatched
PressChord(id) ==
    LET keys == pressedKeys \cup {bKeys[id][k] : k \in DOMAIN bKeys[id]}
        fire == {q \in active : pressFires(q, keys)} IN
    /\ ~capturing
    /\ id \in fire
    /\ \A q \in fire : matchNo[q] < MaxPresses
    /\ pressedKeys' = keys
    /\ bPressed' = bPressed \cup fire
    /\ matchNo' = [q \in PresetIds |->
                      IF q \in fire THEN matchNo[q] + 1 ELSE matchNo[q]]
    /\ pending' = pending \cup
                      {Callback("press", q, matchNo[q] + 1) : q \in fire}
    /\ UNCHANGED <<active, bKeys, regErr, capturing, captureKeys, captureCh,
                   chanBuf, capDone, delivered>>
    /\ UnchangedOrch /\ UnchangedPaste

\* hotkey.go 190-207: the last key of the chord of id goes up; every pressed
\* binding that no longer matches gets its release callback dispatched
ReleaseChord(id) ==
    LET keys == pressedKeys \ {bKeys[id][Len(bKeys[id])]}
        fire == {q \in active : releaseFires(q, keys)} IN
    /\ ~capturing
    /\ id \in fire
    /\ pressedKeys' = keys
    /\ bPressed' = bPressed \ fire
    /\ pending' = pending \cup
                      {Callback("release", q, matchNo[q]) : q \in fire}
    /\ UNCHANGED <<active, bKeys, regErr, capturing, captureKeys, captureCh,
                   chanBuf, capDone, matchNo, delivered>>
    /\ UnchangedOrch /\ UnchangedPaste

\* hotkey.go 186 and 203, main.go: the goroutine `go cb(id)` starts to run
\* PresetService.onHotkeyPress or onHotkeyRelease
RunCallback(t, cb) ==
    /\ cb \in pending
    /\ th[t].pc = "idle"
    /\ th' = [th EXCEPT ![t] =
                 [IdleThread EXCEPT !.pc = IF cb.kind = "press" THEN "hp_begin"
                                           ELSE "hr_begin",
                                    !.p = cb.id, !.m = cb.m]]
    /\ pending' = pending \ {cb}
    /\ delivered' = delivered \cup {cb}
    /\ UNCHANGED <<cfg, disk, states, recordingID, sessionPress, audioActive,
                   audioSamples, recordTimer, recLive, staleTimers, engines,
                   created, hBackend, hPreset, hOpen, usedIds, lastInstalled>>
    /\ UNCHANGED <<pressedKeys, active, bKeys, bPressed, regErr, capturing,
                   captureKeys, captureCh, chanBuf, capDone, matchNo>>
    /\ UnchangedPaste

NextRel ==
    \/ PressChord("p1")
    \/ ReleaseChord("p1")
    \/ \E t \in Threads, cb \in pending : RunCallback(t, cb)
    \/ \E t \in Threads : HP_begin(t)
    \/ \E t \in Threads : HR_begin(t)
    \/ \E t \in Threads : HR_poll(t)
    \/ \E t \in Threads : SR_check(t)
    \/ \E t \in Threads : AudioStart(t)
    \/ \E t \in Threads : SR_revert(t)
    \/ \E t \in Threads : SR_timer(t)
    \/ \E t \in Threads : ST_begin(t)
    \/ \E t \in Threads : ST_pipe(t)
    \/ \E t \in Threads : Return(t)

SpecRel == Init /\ [][NextRel]_vars

\* the writers of config.json: SaveGlobalSettings, onBackendInstalled and
\* the preset operations of the orchestrator
NextSettings ==
    \/ \E t \in Threads, v \in Themes : CallSaveGlobalSettings(t, v)
    \/ \E t \in Threads : GS_load(t)
    \/ \E t \in Threads : GS_save(t)
    \/ \E t \in Threads, b \in Backends : CallBackendInstalled(t, b)
    \/ \E t \in Threads : FlushEngines(t)
    \/ \E t \in Threads : BI_load(t)
    \/ \E t \in Threads : BI_save(t)
    \/ \E t \in Threads : BI_reload(t)
    \/ \E t \in Threads : BI_assign(t)
    \/ \E t \in Threads : Return(t)
    \/ \E p \in PresetIds : CreatePreset(p)
    \/ \E t \in Threads, p \in PresetIds : DeletePreset(t, p)
    \/ \E t \in Threads : DP_unregister(t)
    \/ \E t \in Threads : deactivatePreset(t)

SpecSettings == Init /\ [][NextSettings]_vars

\* the hotkey callbacks of the orchestrator
NextHold ==
    \/ \E t \in Threads : SR_check(t)
    \/ \E t \in Threads : AudioStart(t)
    \/ \E t \in Threads : SR_revert(t)
    \/ \E t \in Threads : SR_timer(t)
    \/ \E t \in Threads : ST_begin(t)
    \/ \E t \in Threads : ST_pipe(t)
    \/ \E t \in Threads : GE_load(t)
    \/ \E t \in Threads : GE_store(t)
    \/ \E t \in Threads : ST_transcribe(t)
    \/ \E t \in Threads : ST_gate(t)
    \/ \E t \in Threads : ST_finish(t)
    \/ \E t \in Threads : Return(t)
    \/ \E t \in Threads : HP_begin(t)
    \/ \E t \in Threads : HP_toggle(t)
    \/ \E t \in Threads : HR_begin(t)
    \/ \E t \in Threads : HR_poll(t)
    \/ \E t \in Threads, p \in Known : GoOnPress(t, p)
    \/ \E t \in Threads, p \in Known : GoOnRelease(t, p)
    \/ \E t \in Threads : FireRecordTimer(t)
    \/ \E t \in Threads, p \in PresetIds : FireStaleTimer(t, p)
    \/ \E p \in PresetIds : CreatePreset(p)
    \/ onRecvFrames

SpecHold == Init /\ [][NextHold]_vars

\* the backend hot-swap next to loads and pipelines
NextSwap ==
    \/ \E t \in Threads : SR_check(t)
    \/ \E t \in Threads : AudioStart(t)
    \/ \E t \in Threads : SR_revert(t)
    \/ \E t \in Threads : SR_timer(t)
    \/ \E t \in Threads : ST_begin(t)
    \/ \E t \in Threads : ST_pipe(t)
    \/ \E t \in Threads : GE_load(t)
    \/ \E t \in Threads : GE_store(t)
    \/ \E t \in Threads : ST_transcribe(t)
    \/ \E t \in Threads : ST_gate(t)
    \/ \E t \in Threads : ST_finish(t)
    \/ \E t \in Threads : DP_unregister(t)
    \/ \E t \in Threads : deactivatePreset(t)
    \/ \E t \in Threads : Return(t)
    \/ \E t \in Threads : AP_register(t)
    \/ \E t \in Threads : activatePreset(t)
    \/ \E t \in Threads : PRE_load(t)
    \/ \E t \in Threads : PRE_store(t)
    \/ \E t \in Threads : FlushEngines(t)
    \/ \E t \in Threads : BI_load(t)
    \/ \E t \in Threads : BI_save(t)
    \/ \E t \in Threads : BI_reload(t)
    \/ \E t \in Threads : BI_assign(t)
    \/ \E t \in Threads, p \in Known : CallStartRecording(t, p)
    \/ \E t \in Threads, p \in Known : CallStopRecording(t, p)
    \/ \E t \in Threads, p \in PresetIds, e \in BOOLEAN : SetPresetEnabled(t, p, e)
    \/ \E t \in Threads, b \in Backends : CallBackendInstalled(t, b)
    \/ onRecvFrames

SpecSwap == Init /\ [][NextSwap]_vars

\* explicit calls only, every goroutine scheduled again and again
StepOf(t) ==
    \/ SR_check(t) \/ AudioStart(t) \/ SR_revert(t) \/ SR_timer(t)
    \/ ST_begin(t) \/ ST_pipe(t) \/ GE_load(t) \/ GE_store(t)
    \/ ST_transcribe(t) \/ ST_gate(t) \/ ST_finish(t) \/ DP_unregister(t)
    \/ deactivatePreset(t) \/ Return(t)

NextFair ==
    \/ \E t \in Threads : SR_check(t)
    \/ \E t \in Threads : AudioStart(t)
    \/ \E t \in Threads : SR_revert(t)
    \/ \E t \in Threads : SR_timer(t)
    \/ \E t \in Threads : ST_begin(t)
    \/ \E t \in Threads : ST_pipe(t)
    \/ \E t \in Threads : GE_load(t)
    \/ \E t \in Threads : GE_store(t)
    \/ \E t \in Threads : ST_transcribe(t)
    \/ \E t \in Threads : ST_gate(t)
    \/ \E t \in Threads : ST_finish(t)
    \/ \E t \in Threads : DP_unregister(t)
    \/ \E t \in Threads : deactivatePreset(t)
    \/ \E t \in Threads : Return(t)
    \/ \E t \in Threads, p \in Known : CallStartRecording(t, p)
    \/ \E t \in Threads, p \in Known : CallStopRecording(t, p)
    \/ \E t \in Threads, p \in PresetIds : DeletePreset(t, p)
    \/ onRecvFrames

FairSpec ==
    Init /\ [][NextFair]_vars /\ \A t \in Threads : WF_vars(StepOf(t))

\* the hotkey manager: key events, bindings, capture, callback goroutines
NextKeys ==
    \/ \E kc \in Keys : handleKeyDown(kc)
    \/ \E kc \in Keys : handleKeyUp(kc)
    \/ \E cb \in pending : Deliver(cb)
    \/ \E id \in PresetIds : Register(id, Hotkey(id))
    \/ \E id \in PresetIds : Unregister(id)
    \/ \E c \in 1 .. MaxCaptures : CaptureHotkey(c)
    \/ \E c \in 1 .. MaxCaptures : CaptureReturn(c)
    \/ CancelCapture

SpecKeys == Init /\ [][NextKeys]_vars

\* chord strings that are empty or hold a part that is no key name
BadChords ==
    {<<>>, <<Space>>, <<"zz">>, <<"ctrl", Plus, "zz">>, <<"ctrl", Plus>>}
\* chord strings of key names and aliases, in any case and order, with the
\* keys they name
GoodChords ==
    (<<"f1">> :> {59}) @@ (<<"shift">> :> {42})
        @@ (<<"Ctrl", Plus, Space, "f1">> :> {29, 59})
        @@ (<<"f1", Plus, "control">> :> {29, 59})
RegStrings == BadChords \cup DOMAIN GoodChords
\* the keys pressed next to Register: a modifier and f1
RegKeys == {29, 59}

\* the hotkey manager with Register called on any chord string
NextReg ==
    \/ \E kc \in RegKeys : handleKeyDown(kc)
    \/ \E kc \in RegKeys : handleKeyUp(kc)
    \/ \E cb \in pending : Deliver(cb)
    \/ \E id \in PresetIds, str \in RegStrings : Register(id, str)
    \/ \E id \in PresetIds : Unregister(id)

SpecReg == Init /\ [][NextReg]_vars

\* the keys pressed in a capture session: a modifier, f1 and num+
CapKeys == {29, 59, 78}

\* capture sessions, and Register called on the chord a session returned
NextCap ==
    \/ \E kc \in CapKeys : handleKeyDown(kc)
    \/ \E kc \in CapKeys : handleKeyUp(kc)
    \/ \E c \in 1 .. MaxCaptures : CaptureHotkey(c)
    \/ \E c \in 1 .. MaxCaptures : CaptureReturn(c)
    \/ \E id \in PresetIds, c \in capDone : Register(id, chanBuf[c][1])
    \/ CancelCapture

SpecCap == Init /\ [][NextCap]_vars

\* capture mode with a second CaptureHotkey call that may start before the
\* first has returned; a call that can receive does so in the end
NextTwo ==
    \/ \E kc \in CapKeys : handleKeyDown(kc)
    \/ \E kc \in CapKeys : handleKeyUp(kc)
    \/ \E c \in 1 .. MaxCaptures + 1 : CaptureHotkey(c)
    \/ \E c \in 1 .. MaxCaptures + 1 : CaptureReturn(c)
    \/ CancelCapture

SpecTwo ==
    Init /\ [][NextTwo]_vars
         /\ \A c \in 1 .. MaxCaptures + 1 : WF_vars(CaptureReturn(c))

(* -------------------- parts exercised by themselves --------------------- *)
\* the strings of at most n pieces out of a set
RECURSIVE StringsOver(_, _)
StringsOver(pieces, n) ==
    IF n = 0 THEN {<<>>}
    ELSE LET shorter == StringsOver(pieces, n - 1) IN
         shorter \cup {Append(str, w) : str \in shorter, w \in pieces}

\* what a chord string is made of: names, an alias, a name in capitals, no
\* name at all, the separator, white space
ChordPieces == {"ctrl", "Ctrl", "control", "shift", "f1", "num", "zz", Plus, Space}
\* the chord strings handed to parseHotkeyStr: every short one, and longer
\* ones with white space around the separator and with three keys
ChordStrings ==
    StringsOver(ChordPieces, MaxPieces)
        \cup {<<"f1", Space, Plus, Space, "Ctrl">>,
              <<"f1", Plus, "shift", Plus, "control">>,
              <<"shift", Plus, "f1", Plus, "shift">>}

ChordInit ==
    /\ InitProgram
    /\ unit \in {[pc |-> "parse", str |-> str, first |-> None, canon |-> None,
                   second |-> None] : str \in ChordStrings}

\* parseHotkeyStr(s)
CH_parse ==
    /\ unit.pc = "parse"
    /\ unit' = [unit EXCEPT !.first = parseHotkeyStr(unit.str),
                           !.pc = IF parseHotkeyStr(unit.str).err = None
                                  THEN "canon" ELSE "done"]
    /\ UnchangedProgram

\* keysToString of the keys it returned
CH_canon ==
    /\ unit.pc = "canon"
    /\ unit' = [unit EXCEPT !.canon = keysToString(unit.first.keys),
                           !.pc = "reparse"]
    /\ UnchangedProgram

\* parseHotkeyStr of that string
CH_reparse ==
    /\ unit.pc = "reparse"
    /\ unit' = [unit EXCEPT !.second = parseHotkeyStr(unit.canon), !.pc = "done"]
    /\ UnchangedProgram

NextChord == CH_parse \/ CH_canon \/ CH_reparse

SpecChord == ChordInit /\ [][NextChord]_vars

\* the ids of the presets of a list, and a preset with its fields
OrderIds == {"p1", "p2", "p3"}
PresetOf(id) == [id |-> id, name |-> <<"preset", id>>]
idsOf(presets) == [k \in DOMAIN presets |-> presets[k].id]
unique(ids) == \A j, k \in DOMAIN ids : ids[j] = ids[k] => j = k

\* s.cfg.Presets and config.json hold the same list of presets with
\* distinct ids
OrderInit ==
    /\ InitProgram
    /\ unit \in {[presets |-> [k \in DOMAIN ids |-> PresetOf(ids[k])],
                   disk |-> [k \in DOMAIN ids |-> PresetOf(ids[k])],
                   ids |-> <<>>, err |-> None] :
                      ids \in {l \in StringsOver(OrderIds, MaxOrder) : unique(l)}}

\* preset.go 298-316: the list ReorderPresets builds, or the error; byID
\* holds for each id the last preset of the list with that id
reordered(presets, ids) ==
    IF Len(ids) # Len(presets) THEN [err |-> "mismatch", list |-> presets]
    ELSE IF \E k \in DOMAIN ids : \A j \in DOMAIN presets : presets[j].id # ids[k]
    THEN [err |-> "unknown", list |-> presets]
    ELSE [err |-> None,
          list |-> [k \in DOMAIN ids |->
                      presets[CHOOSE j \in DOMAIN presets :
                                  /\ presets[j].id = ids[k]
                                  /\ \A l \in DOMAIN presets :
                                        presets[l].id = ids[k] => l <= j]]]

\* preset.go 294-319, one critical section; config.Save writes the file or
\* fails, after s.cfg.Presets was assigned
ReorderPresets(ids, saved) ==
    LET r == reordered(unit.presets, ids) IN
    /\ unit' = IF r.err # None
               THEN [unit EXCEPT !.ids = ids, !.err = r.err]
               ELSE [presets |-> r.list,
                     disk |-> IF saved THEN r.list ELSE unit.disk,
                     ids |-> ids,
                     err |-> IF saved THEN None ELSE "save"]
    /\ UnchangedProgram

NextOrder ==
    \E ids \in StringsOver(OrderIds, MaxOrder), saved \in BOOLEAN :
        ReorderPresets(ids, saved)

SpecOrder == OrderInit /\ [][NextOrder]_vars

\* len(samples) of the arguments of TranscribeLong: up to MaxChunks full
\* chunks and a rest
Rests == {0, 1, minSamples, chunkSamples - 1}
Lengths == {k * chunkSamples + d : k \in 0 .. MaxChunks, d \in Rests}

onProgress(current, total) == [call |-> "onProgress", a |-> current, b |-> total]
Transcribed(from, to, ok) == [call |-> "Transcribe", a |-> from, b |-> to, ok |-> ok]

\* a call of TranscribeLong with its arguments; log: the calls of onProgress
\* and of Transcribe it has made, in their order
LongInit ==
    /\ InitProgram
    /\ unit \in {[pc |-> "start", n |-> n, i |-> 0, chunk |-> 0, log |-> <<>>,
                   err |-> None] : n \in Lengths}

\* whisper.go 162-163
TL_start ==
    /\ unit.pc = "start"
    /\ unit' = [unit EXCEPT !.pc = IF totalChunks(unit.n) <= 1 THEN "single"
                                  ELSE "loop"]
    /\ UnchangedProgram

\* whisper.go 164-166
TL_singleProgress ==
    /\ unit.pc = "single"
    /\ unit' = [unit EXCEPT !.log = Append(@, onProgress(1, 1)),
                           !.pc = "singleTranscribe"]
    /\ UnchangedProgram

\* whisper.go 167-171
TL_singleTranscribe(ok) ==
    /\ unit.pc = "singleTranscribe"
    /\ unit' = [unit EXCEPT !.log = Append(@, Transcribed(0, unit.n, ok)),
                           !.err = IF ok THEN None ELSE "err",
                           !.pc = "done"]
    /\ UnchangedProgram

\* whisper.go 176-184: the loop test, chunk++, end, onProgress
TL_loop ==
    /\ unit.pc = "loop"
    /\ unit' = IF unit.i < unit.n
               THEN [unit EXCEPT !.chunk = @ + 1,
                                 !.log = Append(@, onProgress(unit.chunk + 1,
                                                             totalChunks(unit.n))),
                                 !.pc = "transcribe"]
               ELSE [unit EXCEPT !.pc = "done"]
    /\ UnchangedProgram

\* whisper.go 178-181, 185-188 and the step of the loop, i += chunkSamples
TL_transcribe(ok) ==
    /\ unit.pc = "transcribe"
    /\ LET end == IF unit.i + chunkSamples > unit.n THEN unit.n
                  ELSE unit.i + chunkSamples IN
       unit' = [unit EXCEPT !.log = Append(@, Transcribed(unit.i, end, ok)),
                            !.i = @ + chunkSamples,
                            !.pc = "loop"]
    /\ UnchangedProgram

NextLong ==
    \/ TL_start
    \/ TL_singleProgress
    \/ \E ok \in BOOLEAN : TL_singleTranscribe(ok)
    \/ TL_loop
    \/ \E ok \in BOOLEAN : TL_transcribe(ok)

SpecLong == LongInit /\ [][NextLong]_vars

\* the injector on every platform, over a full or an empty clipboard
NextPaste ==
    \/ \E text \in Texts \cup {Empty} : pasteText(text)
    \/ writeClipboard
    \/ simulatePaste
    \/ \E r \in restores : restoreClipboard(r)

PasteInit == InitOrch /\ InitKeys /\ InitPaste /\ unit = None

SpecPaste == PasteInit /\ [][NextPaste]_vars

\* recordings of any length and their pipelines
NextPipe ==
    \/ \E t \in Threads : SR_check(t)
    \/ \E t \in Threads : AudioStart(t)
    \/ \E t \in Threads : SR_revert(t)
    \/ \E t \in Threads : SR_timer(t)
    \/ \E t \in Threads : ST_begin(t)
    \/ \E t \in Threads : ST_pipe(t)
    \/ \E t \in Threads : GE_load(t)
    \/ \E t \in Threads : GE_store(t)
    \/ \E t \in Threads : ST_transcribe(t)
    \/ \E t \in Threads : ST_gate(t)
    \/ \E t \in Threads : ST_finish(t)
    \/ \E t \in Threads : Return(t)
    \/ \E t \in Threads, p \in Known : CallStartRecording(t, p)
    \/ \E t \in Threads, p \in Known : CallStopRecording(t, p)
    \/ \E p \in PresetIds : CreatePreset(p)
    \/ onRecvFrames
    \/ onRecvBurst

SpecPipe == Init /\ [][NextPipe]_vars

\* preset CRUD with the activation and deactivation goroutines it starts,
\* and ReloadConfig
NextAct ==
    \/ \E t \in Threads : AP_register(t)
    \/ \E t \in Threads : activatePreset(t)
    \/ \E t \in Threads : PRE_load(t)
    \/ \E t \in Threads : PRE_store(t)
    \/ \E t \in Threads : DP_unregister(t)
    \/ \E t \in Threads : deactivatePreset(t)
    \/ \E t \in Threads : Return(t)
    \/ \E p \in PresetIds : CreatePreset(p)
    \/ \E t \in Threads, p \in PresetIds : CreatePresetEnabled(t, p)
    \/ \E t \in Threads, p \in PresetIds, e, c \in BOOLEAN :
          UpdatePreset(t, p, e, c, p \in cfg.renamed)
    \/ \E t \in Threads, p \in PresetIds, e \in BOOLEAN : SetPresetEnabled(t, p, e)
    \/ \E t \in Threads, p \in PresetIds : DeletePreset(t, p)
    \/ \E t \in Threads : RL_load(t)
    \/ \E t \in Threads : RL_assign(t)
    \/ \E t \in Threads : CallReloadConfig(t)

SpecAct == Init /\ [][NextAct]_vars

\* edits of presets through UpdatePreset, of compared and of other fields,
\* next to the goroutines they start
NextUpd ==
    \/ \E t \in Threads : AP_register(t)
    \/ \E t \in Threads : activatePreset(t)
    \/ \E t \in Threads : PRE_load(t)
    \/ \E t \in Threads : PRE_store(t)
    \/ \E t \in Threads : DP_unregister(t)
    \/ \E t \in Threads : deactivatePreset(t)
    \/ \E t \in Threads : Return(t)
    \/ \E p \in PresetIds : CreatePreset(p)
    \/ \E t \in Threads, p \in PresetIds, e, c, n \in BOOLEAN :
          UpdatePreset(t, p, e, c, n)

SpecUpd == Init /\ [][NextUpd]_vars

(* ----------------------------- AudioCapture ------------------------------ *)
\* AudioCapture exercised by itself: unit holds its fields active and
\* samples (a sequence of frames, each frame named by its number), the
\* buffer ret the last Stop returned, the number of the next frame the
\* device delivers and the calls so far. Every method and the device
\* callback hold a.mu from beginning to end (audio.go 38-39, 63-64, 97-98), so
\* each is one step.
MaxEvents == 6

CaptureInit ==
    /\ InitProgram
    /\ unit = [active |-> FALSE, samples |-> <<>>, ret |-> <<>>, next |-> 1,
               log |-> <<>>]

called(ev) == Append(unit.log, ev)

\* a variant of received that does not look at the active flag
receivedAlways(on, samples, frame) == Append(samples, frame)

\* audio.go 66-76: the samples after the callback has run on a frame
received(on, samples, frame) ==
    IF on THEN Append(samples, frame) ELSE samples

\* audio.go 37-93: Start; ok says that malgo.InitDevice and device.Start
\* succeed
AC_Start(ok) ==
    /\ Len(unit.log) < MaxEvents
    /\ LET log == called([op |-> "Start", ok |-> ok, frame |-> 0]) IN
       IF unit.active
       THEN unit' = [unit EXCEPT !.log = log]
       ELSE unit' = [unit EXCEPT !.samples = <<>>, !.active = ok,
                                 !.log = log]
    /\ UnchangedProgram

\* audio.go 62-77: the callback of a device, the one of this session or a
\* late one, on the next frame
AC_onRecvFrames ==
    /\ Len(unit.log) < MaxEvents
    /\ unit' = [unit EXCEPT
                   !.samples = received(unit.active, unit.samples, unit.next),
                   !.next = @ + 1,
                   !.log = called([op |-> "frame", ok |-> TRUE,
                                   frame |-> unit.next])]
    /\ UnchangedProgram

\* audio.go 96-114: Stop; nil for an inactive capture, else a copy of the
\* samples
AC_Stop ==
    /\ Len(unit.log) < MaxEvents
    /\ LET log == called([op |-> "Stop", ok |-> TRUE, frame |-> 0]) IN
       IF ~unit.active
       THEN unit' = [unit EXCEPT !.ret = <<>>, !.log = log]
       ELSE unit' = [unit EXCEPT !.active = FALSE, !.ret = unit.samples,
                                 !.samples = <<>>, !.log = log]
    /\ UnchangedProgram

NextCapture ==
    \/ \E ok \in BOOLEAN : AC_Start(ok)
    \/ AC_onRecvFrames
    \/ AC_Stop

SpecCapture == CaptureInit /\ [][NextCapture]_vars

(* --------------------------- hallucination gate --------------------------- *)
\* isHallucination exercised by itself on a text that is edited between
\* two verdicts: unit holds the text, its verdict once the gate has run (pc is
\* "done"), and the text and the verdict before the last edit
GatePieces == {Space, "...", "bye", "hi"}

GateInit ==
    /\ InitProgram
    /\ unit \in {[pc |-> "gate", text |-> text, flagged |-> FALSE,
                   op |-> "none", prev |-> <<>>, was |-> FALSE] :
                     text \in StringsOver(GatePieces, MaxPieces)}

\* preset.go 676-732 on the text
GT_isHallucination ==
    /\ unit.pc = "gate"
    /\ unit' = [unit EXCEPT !.flagged = isHallucination(unit.text),
                           !.pc = "done"]
    /\ UnchangedProgram

without(text, k) == SubSeq(text, 1, k - 1) \o SubSeq(text, k + 1, Len(text))
with(text, k, w) == SubSeq(text, 1, k - 1) \o <<w>> \o SubSeq(text, k, Len(text))

\* the caller removes the piece at k from a text that has its verdict
GT_remove(k) ==
    /\ unit.pc = "done"
    /\ k \in DOMAIN unit.text
    /\ unit' = [pc |-> "gate", text |-> without(unit.text, k),
                flagged |-> FALSE,
                op |-> "removed", prev |-> unit.text, was |-> unit.flagged]
    /\ UnchangedProgram

\* the caller puts the piece w in at k
GT_add(k, w) ==
    /\ unit.pc = "done"
    /\ Len(unit.text) < MaxPieces
    /\ k \in 1..(Len(unit.text) + 1)
    /\ unit' = [pc |-> "gate", text |-> with(unit.text, k, w),
                flagged |-> FALSE,
                op |-> "added", prev |-> unit.text, was |-> unit.flagged]
    /\ UnchangedProgram

NextGate ==
    \/ GT_isHallucination
    \/ \E k \in 1..MaxPieces : GT_remove(k)
    \/ \E k \in 1..MaxPieces, w \in GatePieces : GT_add(k, w)

SpecGate == GateInit /\ [][NextGate]_vars

(* ----------------------------- noise cleanup ------------------------------ *)
\* cleanWhisperOutput exercised by itself on two chunk texts a and b: on
\* each, and on a, a blank and b in one string
CleanPieces == {Space, "[music]", "hello", "[", "]"}

CleanInit ==
    /\ InitProgram
    /\ unit \in {[pc |-> "parts", a |-> a, b |-> b, parts |-> <<>>,
                   whole |-> <<>>] :
                     a, b \in StringsOver(CleanPieces, MaxPieces)}

\* clean(a) + " " + clean(b)
CL_parts ==
    /\ unit.pc = "parts"
    /\ unit' = [unit EXCEPT
                   !.parts = cleanWhisperOutput(unit.a) \o <<Space>>
                                \o cleanWhisperOutput(unit.b),
                   !.pc = "whole"]
    /\ UnchangedProgram

\* clean(a + " " + b)
CL_whole ==
    /\ unit.pc = "whole"
    /\ unit' = [unit EXCEPT
                   !.whole = cleanWhisperOutput(unit.a \o <<Space>> \o unit.b),
                   !.pc = "done"]
    /\ UnchangedProgram

NextClean == CL_parts \/ CL_whole

SpecClean == CleanInit /\ [][NextClean]_vars

(* ---------------------------- config migration ---------------------------- *)
\* migrateOldConfig exercised by itself: unit holds the bytes of a legacy
\* config.json (valid says that they are JSON; the fields are those of
\* oldConfig, the chord fields as strings of pieces) and, once the call has
\* returned, its result
oldConfigs ==
    [valid : BOOLEAN,
     hotkeyMod : {<<>>, <<"ctrl">>}, hotkeyKey : {<<>>, <<"f1">>},
     recordMode : {"", "toggle"}, modelName : {"", "large-v3"},
     language : {"", "en"}, microphoneId : {"", "mic-1"},
     modelsDir : {"", "/tmp/models"}]

\* the result nil
Nil == [nil |-> TRUE, microphoneId |-> "", modelsDir |-> "", presets |-> <<>>]

MigrateInit ==
    /\ InitProgram
    /\ unit \in {[pc |-> "migrate", data |-> old, out |-> Nil] :
                    old \in oldConfigs}

\* part_003 128-174
migrateOldConfig(data) ==
    IF ~data.valid THEN Nil
    ELSE LET old == data
             hotkey == IF old.hotkeyMod # <<>> /\ old.hotkeyKey # <<>>
                       THEN old.hotkeyMod \o <<Plus>> \o old.hotkeyKey
                       ELSE IF old.hotkeyKey # <<>> THEN old.hotkeyKey
                       ELSE <<>>
             lang == IF old.language = "" THEN "auto" ELSE old.language
             mode == IF old.recordMode = "" THEN "hold" ELSE old.recordMode
             modelName == IF old.modelName = "" THEN "base-q5_1"
                          ELSE old.modelName
             preset == [name |-> "Default", modelName |-> modelName,
                        keepModelLoaded |-> FALSE, inputMode |-> mode,
                        hotkey |-> hotkey, language |-> lang,
                        useKBLayout |-> FALSE, keepHistory |-> TRUE,
                        enabled |-> FALSE]
         IN  [nil |-> FALSE, microphoneId |-> old.microphoneId,
              modelsDir |-> old.modelsDir, presets |-> <<preset>>]

MG_migrate ==
    /\ unit.pc = "migrate"
    /\ unit' = [unit EXCEPT !.out = migrateOldConfig(unit.data), !.pc = "done"]
    /\ UnchangedProgram

NextMigrate == MG_migrate

SpecMigrate == MigrateInit /\ [][NextMigrate]_vars

(* ----------------------------- WhisperEngine ------------------------------ *)
\* one WhisperEngine exercised by itself by the goroutines that hold a
\* pointer to it: the pipelines that call Transcribe and the callers of
\* Close (the end of a pipeline, deactivatePreset, FlushEngines, Shutdown).
\* unit holds w.mu (its holder, 0 when free), whether w.ctx is not nil, the
\* position and the result of each goroutine, and for a Transcribe what its
\* test of w.ctx saw
Callers == 1..3

EngineInit ==
    /\ InitProgram
    /\ unit = [mu |-> 0, ctx |-> TRUE,
               pc |-> [g \in Callers |-> "idle"],
               res |-> [g \in Callers |-> "none"],
               saw |-> [g \in Callers |-> TRUE]]

\* a Lock that does not wait
lockableAlways(mu) == TRUE

\* sync.Mutex.Lock returns when the mutex is free
lockable(mu) == mu = 0

\* whisper.go 102: a goroutine calls Transcribe with samples
EN_Transcribe(g) ==
    /\ unit.pc[g] = "idle"
    /\ unit' = [unit EXCEPT !.pc[g] = "t_lock", !.res[g] = "none",
                           !.saw[g] = TRUE]
    /\ UnchangedProgram

\* whisper.go 209: a goroutine calls Close
EN_Close(g) ==
    /\ unit.pc[g] = "idle"
    /\ unit' = [unit EXCEPT !.pc[g] = "c_lock", !.res[g] = "none",
                           !.saw[g] = TRUE]
    /\ UnchangedProgram

\* whisper.go 103, 210: w.mu.Lock()
EN_Lock(g) ==
    /\ unit.pc[g] \in {"t_lock", "c_lock"}
    /\ lockable(unit.mu)
    /\ unit' = [unit EXCEPT !.mu = g,
                           !.pc[g] = IF @ = "t_lock" THEN "t_check" ELSE "c_free"]
    /\ UnchangedProgram

\* whisper.go 106-108: the test of w.ctx
EN_check(g) ==
    /\ unit.pc[g] = "t_check"
    /\ unit' = [unit EXCEPT !.saw[g] = unit.ctx,
                           !.res[g] = IF unit.ctx THEN "none" ELSE "err",
                           !.pc[g] = IF unit.ctx THEN "t_full" ELSE "unlock"]
    /\ UnchangedProgram

\* whisper.go 141-153: whisper_full runs on w.ctx and returns
EN_whisper_full(g, ok) ==
    /\ unit.pc[g] = "t_full"
    /\ unit' = [unit EXCEPT !.res[g] = IF ok THEN "text" ELSE "err",
                           !.pc[g] = "unlock"]
    /\ UnchangedProgram

\* whisper.go 213-216: whisper_free
EN_free(g) ==
    /\ unit.pc[g] = "c_free"
    /\ unit' = [unit EXCEPT !.ctx = FALSE, !.res[g] = "closed",
                           !.pc[g] = "unlock"]
    /\ UnchangedProgram

\* whisper.go 104, 211: the deferred w.mu.Unlock()
EN_Unlock(g) ==
    /\ unit.pc[g] = "unlock"
    /\ unit' = [unit EXCEPT !.mu = 0, !.pc[g] = "idle"]
    /\ UnchangedProgram

NextEngine ==
    \/ \E g \in Callers : EN_Transcribe(g)
    \/ \E g \in Callers : EN_Close(g)
    \/ \E g \in Callers : EN_Lock(g)
    \/ \E g \in Callers : EN_check(g)
    \/ \E g \in Callers, ok \in BOOLEAN : EN_whisper_full(g, ok)
    \/ \E g \in Callers : EN_free(g)
    \/ \E g \in Callers : EN_Unlock(g)

SpecEngine == EngineInit /\ [][NextEngine]_vars

(* ------------------------------ the mutexes ------------------------------ *)
\* PresetService.mu, HotkeyManager.mu, AudioCapture.mu and WhisperEngine.mu
\* as the operations take them: each operation is the sequence of its Lock
\* and Unlock calls and of the device calls it makes in between
Mutexes == {"s.mu", "m.mu", "a.mu", "w.mu"}
Free == "free"
Lock(x) == [op |-> "lock", mu |-> x]
Unlock(x) == [op |-> "unlock", mu |-> x]
Do(o) == [op |-> o, mu |-> Free]

\* preset.go 321-375 with audio.go 37-95
StartRecordingOps ==
    <<Lock("s.mu"), Unlock("s.mu"), Lock("a.mu"), Do("device.Start"),
      Unlock("a.mu"), Lock("s.mu"), Unlock("s.mu")>>

\* preset.go 378-500 with audio.go 98-117 and whisper.go 102-154, 209-217:
\* audio.Stop under s.mu, Transcribe outside it, e.Close under it
StopRecordingOps ==
    <<Lock("s.mu"), Lock("a.mu"), Do("device.Stop"), Do("stopped"),
      Unlock("a.mu"), Unlock("s.mu"), Lock("w.mu"), Unlock("w.mu"),
      Lock("s.mu"), Lock("w.mu"), Unlock("w.mu"), Unlock("s.mu")>>

\* audio.go 61-75: the data callback of the device
onRecvFramesOps == <<Do("callback"), Lock("a.mu"), Unlock("a.mu")>>

\* preset.go 577-585
FlushEnginesOps == <<Lock("s.mu"), Lock("w.mu"), Unlock("w.mu"), Unlock("s.mu")>>

\* preset.go 108-118 with hotkey.go 100-105
deactivatePresetOps ==
    <<Lock("m.mu"), Unlock("m.mu"), Lock("s.mu"), Lock("w.mu"), Unlock("w.mu"),
      Unlock("s.mu")>>

\* preset.go 602-616 with hotkey.go 61-82 and audio.go 127-142
ShutdownOps ==
    <<Lock("s.mu"), Lock("m.mu"), Unlock("m.mu"), Lock("w.mu"), Unlock("w.mu"),
      Lock("a.mu"), Do("device.Stop"), Do("stopped"), Unlock("a.mu"),
      Unlock("s.mu")>>

\* hotkey.go 171-188: the event loop; the callbacks run in goroutines
handleKeyDownOps == <<Lock("m.mu"), Unlock("m.mu")>>

Procs ==
    {"StartRecording", "StopRecording", "onRecvFrames", "FlushEngines",
     "deactivatePreset", "Shutdown", "handleKeyDown"}

Ops(g) ==
    CASE g = "StartRecording" -> StartRecordingOps
      [] g = "StopRecording" -> StopRecordingOps
      [] g = "onRecvFrames" -> onRecvFramesOps
      [] g = "FlushEngines" -> FlushEnginesOps
      [] g = "deactivatePreset" -> deactivatePresetOps
      [] g = "Shutdown" -> ShutdownOps
      [] g = "handleKeyDown" -> handleKeyDownOps

\* holder: who holds each mutex; pc: the next operation of each; started:
\* the device runs and calls back; open: a.device is not nil
LocksInit ==
    /\ InitProgram
    /\ unit = [holder |-> [x \in Mutexes |-> Free],
               pc |-> [g \in Procs |-> 1],
               started |-> FALSE, open |-> FALSE]

Over(g) == unit.pc[g] > Len(Ops(g))
NextOp(g) == Ops(g)[unit.pc[g]]
inCallback == unit.pc["onRecvFrames"] > 1

\* what the next operation of g waits for: a free mutex; a running device
\* for the callback; for device.Stop to return, the end of the callback in
\* progress
CanStep(g) ==
    /\ ~Over(g)
    /\ CASE NextOp(g).op = "lock" -> unit.holder[NextOp(g).mu] = Free
         [] NextOp(g).op = "callback" -> unit.started
         [] NextOp(g).op = "stopped" -> ~inCallback
         [] OTHER -> TRUE

\* one operation of g; device.Stop is skipped on a capturer without a
\* device, and the callback goes back to wait for its next period
LK_step(g) ==
    LET o == NextOp(g)
        next == IF g = "onRecvFrames" /\ unit.pc[g] = Len(Ops(g)) THEN 1
                ELSE IF o.op = "device.Stop" /\ ~unit.open THEN unit.pc[g] + 2
                ELSE unit.pc[g] + 1 IN
    /\ CanStep(g)
    /\ unit' = [unit EXCEPT
                  !.pc[g] = next,
                  !.holder = IF o.op = "lock" THEN [@ EXCEPT ![o.mu] = g]
                             ELSE IF o.op = "unlock" THEN [@ EXCEPT ![o.mu] = Free]
                             ELSE @,
                  !.started = IF o.op = "device.Start" THEN TRUE
                              ELSE IF o.op = "device.Stop" THEN FALSE ELSE @,
                  !.open = IF o.op = "device.Start" THEN TRUE
                           ELSE IF o.op = "device.Stop" THEN FALSE ELSE @]
    /\ UnchangedProgram

NextLocks == \E g \in Procs : LK_step(g)

SpecLocks == LocksInit /\ [][NextLocks]_vars

(* --------------------------- backend install --------------------------- *)
\* installBackendAsync (backend_install_windows.go 40-69,
\* backend_install_linux.go 19-45): runtime, download with hot-load, then
\* onBackendInstalled and the terminal event. events: the done events
\* emitted, each with its error flag; got: the library was placed; loaded:
\* what loadBackendDLL returned
InstallInit ==
    /\ InitProgram
    /\ unit = [pc |-> "idle", id |-> None, got |-> FALSE, loaded |-> FALSE,
               events |-> <<>>]

doneEvent(err) == [done |-> TRUE, err |-> err]

\* the install of a backend other than the selected one begins
IN_install(id) ==
    /\ unit.pc = "idle"
    /\ id # cfg.backend
    /\ unit' = [unit EXCEPT !.pc = "runtime", !.id = id]
    /\ UnchangedProgram

\* backend_install_windows.go 46-54: the system runtime installs or fails
IN_runtime(ok) ==
    /\ unit.pc = "runtime"
    /\ unit' = IF ok THEN [unit EXCEPT !.pc = "download"]
               ELSE [unit EXCEPT !.pc = "over",
                                 !.events = Append(@, doneEvent(TRUE))]
    /\ UnchangedProgram

\* backend_download.go 66-127 and backend_install_windows.go 57-61: the
\* download up to os.Rename returns an error or places the library
IN_download(ok) ==
    /\ unit.pc = "download"
    /\ unit' = IF ok THEN [unit EXCEPT !.pc = "hotload", !.got = TRUE]
               ELSE [unit EXCEPT !.pc = "over",
                                 !.events = Append(@, doneEvent(TRUE))]
    /\ UnchangedProgram

\* backend_download.go 129-136: loadBackendDLL; its result is logged and
\* downloadBackendDLL returns nil
IN_hotload(ok) ==
    /\ unit.pc = "hotload"
    /\ unit' = [unit EXCEPT !.pc = "installed", !.loaded = ok]
    /\ UnchangedProgram

\* backend_install_windows.go 64-66: onBackendInstalled(id), main.go 53-60
IN_callback(t) ==
    /\ unit.pc = "installed"
    /\ th[t].pc = "idle"
    /\ th' = [th EXCEPT ![t] = [IdleThread EXCEPT !.pc = "flush", !.res = unit.id]]
    /\ unit' = [unit EXCEPT !.pc = "callback"]
    /\ UNCHANGED <<cfg, disk, states, recordingID, sessionPress, audioActive,
                   audioSamples, recordTimer, recLive, staleTimers, engines,
                   created, hBackend, hPreset, hOpen, usedIds, lastInstalled>>
    /\ UNCHANGED <<keyVars, pasteVars>>

\* backend_install_windows.go 68: emit("", "", 100, true, "") once the
\* callback has returned
IN_emit ==
    /\ unit.pc = "callback"
    /\ lastInstalled = unit.id
    /\ unit' = [unit EXCEPT !.pc = "over",
                            !.events = Append(@, doneEvent(FALSE))]
    /\ UnchangedProgram

NextInstall ==
    \/ \E id \in Backends : IN_install(id)
    \/ \E ok \in BOOLEAN : IN_runtime(ok)
    \/ \E ok \in BOOLEAN : IN_download(ok)
    \/ \E ok \in BOOLEAN : IN_hotload(ok)
    \/ \E t \in Threads : IN_callback(t)
    \/ IN_emit
    \/ \E t \in Threads : FlushEngines(t)
    \/ \E t \in Threads : BI_load(t)
    \/ \E t \in Threads : BI_save(t)
    \/ \E t \in Threads : BI_reload(t)
    \/ \E t \in Threads : BI_assign(t)
    \/ \E t \in Threads : Return(t)
    \/ \E t \in Threads, p \in PresetIds, e \in BOOLEAN : SetPresetEnabled(t, p, e)
    \/ \E t \in Threads : AP_register(t)
    \/ \E t \in Threads : activatePreset(t)
    \/ \E t \in Threads : PRE_load(t)
    \/ \E t \in Threads : PRE_store(t)
    \/ \E t \in Threads : DP_unregister(t)
    \/ \E t \in Threads : deactivatePreset(t)

SpecInstall == InstallInit /\ [][NextInstall]_vars

(* -------------------------------- claims -------------------------------- *)
\* the positions of StopRecording between its write of "processing" and its
\* write of "idle"
PipelinePcs ==
    {"st_pipe", "ge_load", "ge_store", "st_transcribe", "st_gate", "st_finish"}

\* C1: at every instant at most one preset id has state "recording" or
\* "processing" in the state map.
C1_AtMostOneActive == Cardinality(Active(states)) <= 1

\* a StartRecording for the second preset was refused while the first records
C1_Witness ==
    \E t \in Threads :
        /\ th[t].pc = "done" /\ th[t].res = "busy" /\ th[t].p = "p2"
        /\ states["p1"] = "recording"

\* C2: the critical section of StartRecording, entered while any preset
\* (another one or the same) is recording or processing, returns Busy and
\* changes no state, no audio, no timer and no other goroutine; entered while
\* none is, a start leaves exactly the started preset active.
C2_BusyRejects ==
    [][\A t \in Threads :
          (th[t].pc = "sr_check" /\ th'[t] # th[t]) =>
              IF Active(states) # {}
              THEN /\ th'[t].pc = "done" /\ th'[t].res = "busy"
                   /\ states' = states
                   /\ audioActive' = audioActive /\ audioSamples' = audioSamples
                   /\ recordTimer' = recordTimer /\ recLive' = recLive
                   /\ staleTimers' = staleTimers
                   /\ \A u \in Threads \ {t} : th'[u] = th[u]
              ELSE th'[t].pc = "sr_audio" => Active(states') = {th[t].p}]_vars

\* a StartRecording of the preset that is being processed was refused, and
\* the pipeline of that preset is still running
C2_Witness ==
    \E t, u \in Threads :
        /\ th[t].pc = "done" /\ th[t].res = "busy"
        /\ states[th[t].p] = "processing"
        /\ th[u].pc \in PipelinePcs /\ th[u].p = th[t].p

\* the changes of one preset's state the orchestrator makes
C3_Steps ==
    {<<"idle", "recording">>, <<"recording", "processing">>,
     <<"processing", "idle">>,
     <<"recording", "idle">>,
     <<"", "idle">>, <<"idle", "">>, <<"recording", "">>, <<"processing", "">>}

\* C3 (amended): every change of a preset's state is a step of the cycle
\* idle -> recording -> processing -> idle, the revert recording -> idle, the
\* removal of the entry or the entry's return as idle; in particular never
\* idle -> processing and never processing -> recording.
C3_CycleOrRevert ==
    [][\A p \in PresetIds :
          states'[p] # states[p] => <<states[p], states'[p]>> \in C3_Steps]_vars

\* StartRecording failed to open the device and put the preset back to idle
C3_Witness ==
    \E t \in Threads :
        /\ th[t].pc = "done" /\ th[t].res = "audiofail"
        /\ states[th[t].p] = "idle"

\* C3 as stated: no preset goes from "recording" to "idle" or from "idle" to
\* "processing" in one step.
C3_NoSkippedStep ==
    [][\A p \in PresetIds :
          /\ ~(states[p] = "recording" /\ states'[p] = "idle")
          /\ ~(states[p] = "idle" /\ states'[p] = "processing")]_vars

\* C4 as stated: while a pipeline is between "processing" and "idle", no
\* other pipeline is and no preset is recording.
C4_NoOverlap ==
    \A t \in Threads :
        th[t].pc \in PipelinePcs =>
            /\ \A u \in Threads \ {t} : th[u].pc \notin PipelinePcs
            /\ \A q \in PresetIds : states[q] # "recording"

\* C5: a StopRecording that moved a preset to "processing" eventually
\* returns an envelope (empty, text or error) with that preset idle.
C5_PipelineConverges ==
    \A t \in Threads, p \in PresetIds :
        (th[t].pc \in PipelinePcs /\ th[t].p = p)
            ~> (/\ th[t].pc = "done" /\ th[t].p = p
                /\ th[t].res \in {"empty", "text", "err"}
                /\ states[p] = "idle")

\* a pipeline ended with the error envelope and its preset idle
C5_Witness ==
    \E t \in Threads :
        /\ th[t].pc = "done" /\ th[t].res = "err"
        /\ states[th[t].p] = "idle"

\* C6 (amended): an injection whose restore goroutine wrote ends with the
\* content read at its start on the clipboard; an injection whose keystroke
\* failed, or whose clipboard could not be read, ends without any restore.
C6_RestoredWhenPasted ==
    \A f \in finished :
        /\ f.how = "restored" => f.clip = f.orig
        /\ f.how \in {"keyfail", "fallback", "norestore"} =>
              /\ \A r \in restores : r.no # f.no
              /\ \A g \in finished : g.no = f.no => g.how = f.how

\* the user's content came back after a successful paste
C6_Witness ==
    \E f \in finished :
        f.how = "restored" /\ f.orig = "PREV" /\ f.text = "t1" /\ f.clip = "PREV"

\* C6 as stated: every injection that is over left the content the
\* clipboard had when it started.
C6_AlwaysRestored == \A f \in finished : f.clip = f.orig

\* C7 (amended): a release callback is dispatched only after the press
\* callback of the same match has been dispatched.
C7_ReleaseDispatchedAfterPress ==
    \A cb \in Dispatched :
        cb.kind = "release" => Callback("press", cb.id, cb.m) \in Dispatched

\* the release callback of a match runs while its press callback has not
\* started
C7_Witness ==
    \E cb \in delivered :
        cb.kind = "release" /\ Callback("press", cb.id, cb.m) \in pending

\* C7 as stated: a release callback runs only after the press callback of
\* the same match has started to run.
C7_PressDeliveredFirst ==
    \A cb \in delivered :
        cb.kind = "release" => Callback("press", cb.id, cb.m) \in delivered

\* C8: a pass of the release handler's polling loop changes no state of the
\* orchestrator; it calls StopRecording exactly when it reads "recording",
\* polls again while fewer than pollLimit passes are done, and returns after
\* the last pass.
C8_ReleasePolls ==
    [][\A t \in Threads :
          (th[t].pc = "hr_poll" /\ th'[t] # th[t]) =>
              /\ th[t].n < pollLimit
              /\ UNCHANGED <<cfg, disk, states, recordingID, sessionPress, audioActive,
                             audioSamples, recordTimer, recLive, staleTimers,
                             engines, hOpen>>
              /\ IF states[th[t].p] = "recording"
                 THEN th'[t].pc = "st_begin" /\ th'[t].p = th[t].p
                 ELSE IF th[t].n + 1 < pollLimit
                 THEN th'[t].pc = "hr_poll" /\ th'[t].n = th[t].n + 1
                 ELSE th'[t].pc = "done" /\ th'[t].res = "silent"]_vars

\* the release handler has polled in vain and now finds the preset recording
C8_Witness ==
    \E t \in Threads :
        th[t].pc = "hr_poll" /\ th[t].n > 0 /\ states[th[t].p] = "recording"

\* C9 as stated: when the auto-stop timer of the recording in progress
\* fires, its preset is "recording", so that StopRecording runs the pipeline.
C9_AutoStopRuns ==
    [][(recLive /\ ~recLive' /\ recordTimer' = recordTimer
            /\ recordingID = recordTimer)
          => states[recordTimer] = "recording"]_vars

\* C10 as stated: once onBackendInstalled(id) has run, cfg.backend is id
\* and every cached handle was created with id.
C10_SwapComplete ==
    lastInstalled # None =>
        /\ cfg.backend = lastInstalled
        /\ \A p \in PresetIds :
              engines[p] # 0 => hBackend[engines[p]] = lastInstalled

\* no goroutine of the orchestrator is running
Quiescent == \A t \in Threads : th[t].pc \in {"idle", "done"}

\* C11 as stated: once the goroutines the preset operations started have
\* finished, a preset that is not enabled (disabled by SetPresetEnabled or
\* UpdatePreset, or deleted) has no binding in the hotkey manager and no
\* engine in the cache.
C11_DeactivatedClean ==
    Quiescent =>
        \A p \in PresetIds :
            p \notin cfg.enabled => p \notin active /\ engines[p] = 0

\* the engines of a preset that are loaded and not yet closed
loadedFor(p) == {h \in hOpen : hPreset[h] = p}

\* C12 as stated: at most one loaded, not yet destroyed engine handle exists
\* per preset id, and no handle is cached for two presets.
C12_OneHandlePerPreset ==
    /\ \A p \in PresetIds : Cardinality(loadedFor(p)) <= 1
    /\ \A p, q \in PresetIds :
          engines[p] # 0 /\ engines[p] = engines[q] => p = q

\* C13 as stated: when the pipeline of a preset that does not keep its
\* model loaded returns, the cache holds no engine for the preset and the
\* engine the pipeline had in hand is closed.
C13_EvictedAfterPipeline ==
    [][\A t \in Threads :
          (/\ th[t].pc \in PipelinePcs /\ th'[t].pc = "done"
           /\ ~KeepModelLoaded(th[t].p))
          => /\ states'[th[t].p] = "idle"
             /\ engines'[th[t].p] = 0
             /\ th[t].h # 0 => th[t].h \notin hOpen']_vars

\* C14: the step of StopRecording that looks at the length of the stopped
\* capture returns the empty envelope for fewer than minSamples samples, with
\* the preset idle, no engine loaded, closed or cached, nothing injected and
\* no history entry; with minSamples samples or more it goes on to the
\* engine (the cached one, or the load of a new one).
C14_ShortIsDiscarded ==
    [][\A t \in Threads :
          (th[t].pc = "st_pipe" /\ th'[t] # th[t]) =>
              IF th[t].n < minSamples
              THEN /\ th'[t].pc = "done" /\ th'[t].res = "empty"
                   /\ states'[th[t].p] = "idle"
                   /\ UNCHANGED <<engines, created, hOpen>>
                   /\ th'[t].inj = <<>> /\ th'[t].hist = 0
              ELSE /\ th'[t].pc \in {"ge_load", "st_transcribe"}
                   /\ th'[t].pc = "st_transcribe" => th'[t].h = engines[th[t].p]
                   /\ UNCHANGED states]_vars

\* StopRecording has stopped a capture of fewer than minSamples samples
C14_Witness ==
    \E t \in Threads :
        /\ th[t].pc = "st_pipe" /\ th[t].n < minSamples
        /\ states[th[t].p] = "processing"

\* C15: when audio.Start fails, StartRecording arms no timer and changes no
\* state before the revert; the revert returns the error, sets the preset of
\* the call to idle, leaves every other preset's state alone and arms no
\* timer.
C15_AudioFailureReverts ==
    [][\A t \in Threads :
          /\ (th[t].pc = "sr_audio" /\ th'[t].pc = "sr_revert") =>
                /\ ~audioActive /\ ~audioActive'
                /\ UNCHANGED <<states, recordTimer, recLive, staleTimers>>
          /\ (th[t].pc = "sr_revert" /\ th'[t] # th[t]) =>
                /\ th'[t].pc = "done" /\ th'[t].res = "audiofail"
                /\ states'[th[t].p] = "idle"
                /\ \A q \in PresetIds \ {th[t].p} : states'[q] = states[q]
                /\ UNCHANGED <<recordTimer, recLive, staleTimers>>]_vars

\* a StartRecording returned the device error; no recording is in progress
\* and no timer is pending
C15_Witness ==
    \E t \in Threads :
        /\ th[t].pc = "done" /\ th[t].res = "audiofail"
        /\ states[th[t].p] = "idle" /\ recordingID = None
        /\ ~recLive /\ StaleCount = 0 /\ ~audioActive

\* C16 as stated: a pipeline in which a Transcribe call has failed, in a
\* recording of one chunk or of several, injects nothing and returns the
\* error envelope with the preset idle.
C16_FailureReported ==
    [][\A t \in Threads :
          /\ (th[t].pc = "st_transcribe" /\ th'[t].pc = "done") =>
                th'[t].res = "err" /\ states'[th[t].p] = "idle"
          /\ th[t].failed =>
                /\ th'[t].inj = <<>>
                /\ th'[t].pc = "done" =>
                      th'[t].res = "err" /\ states'[th[t].p] = "idle"]_vars

\* a text with a canned phrase in it
Canned(text) == \E k \in DOMAIN text : text[k] \in Phrases

\* C17: the step after TranscribeLong hands a trimmed text that is empty or
\* holds a canned phrase to nobody: no injector call, no history entry, the
\* empty result; any other text goes to the injector exactly once, as it
\* is, with a history entry exactly when the preset keeps history; and the
\* call returns the result of that step.
C17_GateDecides ==
    [][\A t \in Threads :
          /\ (th[t].pc = "st_gate" /\ th'[t] # th[t]) =>
                LET text == TrimSpace(th[t].parts) IN
                IF text = <<>> \/ Canned(text)
                THEN /\ th'[t].inj = <<>> /\ th'[t].hist = 0
                     /\ th'[t].out = <<>>
                ELSE /\ th'[t].inj = <<text>>
                     /\ th'[t].hist = (IF KeepHistory(th[t].p) THEN 1 ELSE 0)
                     /\ th'[t].out = text
          /\ (th[t].pc = "st_finish" /\ th'[t] # th[t]) =>
                /\ th'[t].pc = "done"
                /\ th'[t].res = (IF th[t].out = <<>> THEN "empty" ELSE "text")]_vars

\* the transcription of a recording held a canned phrase next to speech and
\* the gate has dropped it: nothing injected, no history entry
C17_Witness ==
    \E t \in Threads :
        /\ th[t].pc = "st_finish"
        /\ Canned(th[t].parts) /\ Len(th[t].parts) > 1
        /\ th[t].inj = <<>> /\ th[t].hist = 0 /\ th[t].out = <<>>

\* C18 as stated: an injection whose keystroke could not be delivered
\* returns without an error and leaves the text on the clipboard, on every
\* platform.
C18_KeystrokeFailureSucceeds ==
    \A f \in finished :
        keystrokeFailed(f.how) => ~pasteError(f.how) /\ f.clip = f.text

\* C19: a step taken while capture mode is on marks no binding as matched,
\* counts no match and dispatches no press callback.
C19_NoMatchInCapture ==
    [][capturing =>
          /\ bPressed' \subseteq bPressed
          /\ matchNo' = matchNo
          /\ \A cb \in Dispatched' \ Dispatched : cb.kind # "press"]_vars

\* capture mode is on and the chord of a registered binding is held down,
\* yet the binding is not marked and no callback was ever dispatched for it
C19_Witness ==
    \E id \in active :
        /\ capturing
        /\ matchBinding(id, pressedKeys)
        /\ id \notin bPressed /\ matchNo[id] = 0
        /\ \A cb \in Dispatched : cb.id # id

\* the step puts a result on the channel of the capture session
resultSent == chanBuf'[captureCh] # chanBuf[captureCh]
\* the result the step has put there
resultOf == chanBuf'[captureCh][Len(chanBuf'[captureCh])]
\* the keys a chord string names between its separators
chordIn(str) ==
    {kc \in DOMAIN keycodeToName :
        \E k \in DOMAIN Split(str) : Split(str)[k] = keycodeToName[kc]}

\* C20 as stated: a capture session has at most one result, and a step of
\* the session that delivers it ends the session; a key-down of Escape
\* delivers the empty chord and leaves the bindings alone; a key-down of a
\* non-modifier delivers the chord of all keys then held except Escape; a
\* key-down of a modifier delivers nothing and accumulates the modifier; a
\* key-up delivers a result exactly when modifiers were accumulated and none
\* of them is held any more, and the result is the accumulated modifiers;
\* no other step delivers anything but the empty chord or the held keys.
C20_CaptureResult ==
    /\ [](\A c \in DOMAIN chanBuf : Len(chanBuf[c]) <= 1)
    /\ [](capturing /\ captureKeys # {} => captureKeys \cap pressedKeys # {})
    /\ [][IF ~capturing THEN chanBuf' = chanBuf
          ELSE LET down == pressedKeys' \ pressedKeys IN
               /\ resultSent => ~capturing' /\ chanBuf[captureCh] = <<>>
               /\ kcEscape \in down =>
                      /\ resultSent /\ resultOf = <<>>
                      /\ active' = active /\ bPressed' = bPressed
               /\ (\E kc \in down : ~isModifier(kc) /\ kc # kcEscape) =>
                      resultSent /\ chordIn(resultOf) = pressedKeys' \ {kcEscape}
               /\ (\E kc \in down : isModifier(kc)) =>
                      ~resultSent /\ captureKeys' = captureKeys \cup down
               /\ (pressedKeys' # pressedKeys /\ down = {}) =>
                      /\ resultSent <=> /\ captureKeys # {}
                                        /\ captureKeys \cap pressedKeys' = {}
                      /\ resultSent => chordIn(resultOf) = captureKeys
               /\ (pressedKeys' = pressedKeys /\ resultSent) =>
                      \/ resultOf = <<>>
                      \/ chordIn(resultOf) = pressedKeys \ {kcEscape}]_vars

\* the keys of a sorted list of keycodes
keySet(keys) == {keys[k] : k \in DOMAIN keys}

\* C21: Register with a chord that is empty or holds an unrecognised token
\* returns ParseError and leaves the map of bindings as it was, the binding
\* of the same preset included; Register with a chord of key names and
\* aliases returns no error, leaves the preset with one fresh binding of
\* exactly the keys named, and the bindings of the other presets alone.
C21_RegisterParses ==
    [][\A id \in PresetIds :
          /\ \A str \in BadChords :
                Register(id, str) =>
                    /\ regErr' = ParseError
                    /\ active' = active /\ bKeys' = bKeys
                    /\ bPressed' = bPressed
          /\ \A str \in DOMAIN GoodChords :
                Register(id, str) =>
                    /\ regErr' = None
                    /\ active' = active \cup {id}
                    /\ keySet(bKeys'[id]) = GoodChords[str]
                    /\ id \notin bPressed'
                    /\ \A q \in PresetIds \ {id} :
                          /\ bKeys'[q] = bKeys[q]
                          /\ q \in bPressed' <=> q \in bPressed]_vars

\* a Register call has returned ParseError next to the two bindings made
\* before it, one of them held down
C21_Witness ==
    /\ regErr = ParseError
    /\ active = PresetIds
    /\ bKeys["p1"] = <<29, 59>> /\ bKeys["p2"] = <<42>>
    /\ bPressed = {"p1"} /\ pressedKeys = {29, 59}

\* the results the capture sessions have delivered so far
captured == {chanBuf[c][1] : c \in {d \in DOMAIN chanBuf : chanBuf[d] # <<>>}}

\* C22 as stated: every non-empty result of a capture session parses, it is
\* the display string of the keys it parses to, those keys are exactly the
\* keys the session captured (the keys held at a non-modifier key-down, or
\* the accumulated modifiers), and Register returns no error for it.
C22_CaptureRegisters ==
    /\ [](\A str \in captured \ {<<>>} :
              /\ parseHotkeyStr(str).err = None
              /\ keysToString(parseHotkeyStr(str).keys) = str)
    /\ [][capturing /\ resultSent /\ resultOf # <<>> =>
              keySet(parseHotkeyStr(resultOf).keys)
                  \in {pressedKeys' \ {kcEscape}, captureKeys}]_vars
    /\ [][\A id \in PresetIds, c \in capDone :
              chanBuf[c][1] # <<>> /\ Register(id, chanBuf[c][1]) =>
                  regErr' = None /\ id \in active']_vars

\* C23: for every chord string that parses, the display string of the keys
\* it parses to parses again, to the same keys.
C23_CanonIdempotent ==
    (unit.pc = "done" /\ unit.first.err = None) =>
        unit.second.err = None /\ unit.second.keys = unit.first.keys

\* a chord with an alias in capitals before a modifier and white space
\* around the separator has gone through parse, canon and parse
C23_Witness ==
    /\ unit.pc = "done"
    /\ unit.str = <<"f1", Space, Plus, Space, "Ctrl">>
    /\ unit.first.keys = <<29, 59>>
    /\ unit.canon = <<"ctrl", Plus, "f1">>
    /\ unit.second.keys = <<29, 59>>

\* how often x occurs in a list
count(list, x) == Cardinality({k \in DOMAIN list : list[k] = x})
\* ids names every id of the list of presets once and nothing else
permutationOf(ids, presets) ==
    /\ Len(ids) = Len(presets)
    /\ \A k \in DOMAIN presets : count(ids, presets[k].id) = 1

\* C24 as stated: a call of ReorderPresets on a list of presets with
\* distinct ids, if the file can be written, returns no error exactly when
\* its argument is a permutation of the ids of the list; when it returns no
\* error the list holds the same presets as often as before, in the order
\* of the argument; when it returns an error the list is as it was.
C24_ReorderPermutation ==
    [][(unit' # unit /\ unique(idsOf(unit.presets))) =>
          /\ unit'.err # "save" =>
                (unit'.err = None <=> permutationOf(unit'.ids, unit.presets))
          /\ unit'.err = None =>
                /\ idsOf(unit'.presets) = unit'.ids
                /\ \A k \in DOMAIN unit.presets :
                      count(unit'.presets, unit.presets[k])
                          = count(unit.presets, unit.presets[k])
          /\ unit'.err # None => unit'.presets = unit.presets]_vars

\* the number of chunks of n samples: the least N >= 1 with n <= 25*16000*N
chunksOf(n) == CHOOSE N \in 1 .. MaxChunks + 2 :
                  /\ n <= 25 * 16000 * N
                  /\ N = 1 \/ n > 25 * 16000 * (N - 1)

C26_UpdateFrame ==
    [][\A t \in Threads, p \in PresetIds, n \in BOOLEAN :
          UpdatePreset(t, p, p \in cfg.enabled, FALSE, n)
          => /\ th' = th
             /\ UNCHANGED <<active, bKeys, bPressed>>
             /\ UNCHANGED <<engines, created, hBackend, hPreset, hOpen>>]_vars

\* the display name of the enabled preset p1 has been edited: its binding
\* is the one of the start of the program, no engine was ever created and
\* no goroutine runs
C26_Witness ==
    /\ cfg.renamed = {"p1"}
    /\ cfg.enabled = {"p1"}
    /\ disk = cfg
    /\ active = {"p1"}
    /\ created = 0
    /\ \A t \in Threads : th[t].pc = "idle"

\* the calls of a log of AudioCapture since its last Stop, the session they
\* leave open (the first successful Start among them is the matching one)
\* and the frames the callback delivered in that session, in order
lastStop(log) ==
    LET ks == {k \in DOMAIN log : log[k].op = "Stop"} IN
    IF ks = {} THEN 0 ELSE CHOOSE k \in ks : \A j \in ks : j <= k
openings(log) ==
    {k \in DOMAIN log : k > lastStop(log) /\ log[k].op = "Start" /\ log[k].ok}
inSession(log) == openings(log) # {}
isFrame(ev) == ev.op = "frame"
sessionFrames(log) ==
    LET k0 == CHOOSE k \in openings(log) : \A j \in openings(log) : k <= j
        evs == SelectSeq(SubSeq(log, k0 + 1, Len(log)), isFrame)
    IN  [i \in DOMAIN evs |-> evs[i].frame]

\* C27: Start during a session changes nothing and keeps the samples
\* captured so far; Stop outside a session returns an empty buffer; Stop in
\* a session returns the frames the callback delivered since the matching
\* Start, in the order of delivery; a callback outside a session changes
\* neither the samples nor a buffer returned before.
C27_CaptureSession ==
    [][LET ev == unit'.log[Len(unit'.log)] IN
       /\ ev.op = "Start" /\ inSession(unit.log)
          => /\ unit'.samples = sessionFrames(unit.log)
             /\ unit'.active
             /\ unit'.ret = unit.ret
       /\ ev.op = "Stop" /\ ~inSession(unit.log) => unit'.ret = <<>>
       /\ ev.op = "Stop" /\ inSession(unit.log)
          => unit'.ret = sessionFrames(unit.log)
       /\ ev.op = "frame" /\ ~inSession(unit.log)
          => unit'.samples = <<>> /\ unit'.ret = unit.ret]_vars

\* Start, frame 1, Start again, frame 2, Stop, frame 3: Stop has returned
\* frames 1 and 2 and the late frame 3 is in no buffer
C27_Witness ==
    /\ Len(unit.log) = 6
    /\ unit.log[1].op = "Start" /\ unit.log[1].ok
    /\ unit.log[3].op = "Start"
    /\ unit.log[5].op = "Stop"
    /\ unit.log[6].op = "frame"
    /\ unit.ret = <<1, 2>>
    /\ unit.samples = <<>>

\* C28: a flagged text with characters removed is still flagged, and an
\* unflagged text with content added is still unflagged.
C28_GateMonotone ==
    /\ unit.op = "removed" /\ unit.was /\ unit.pc = "done"
       => unit.flagged
    /\ unit.op = "added" /\ ~unit.was /\ unit.pc = "done"
       => ~unit.flagged

\* C28 as amended: a flagged text without a canned phrase is still flagged
\* with characters removed unless nothing is left of it, and a text that is
\* not empty and not flagged is flagged with content added only when it
\* then holds a canned phrase.
C28_GateMonotoneShort ==
    /\ /\ unit.op = "removed" /\ unit.was /\ unit.pc = "done"
       /\ ~Canned(unit.prev) /\ unit.text # <<>>
       => unit.flagged
    /\ /\ unit.op = "added" /\ ~unit.was /\ unit.pc = "done"
       /\ unit.prev # <<>>
       => (unit.flagged => Canned(unit.text))

\* the flagged text "hi..." has lost its dots and is flagged again
C28_Witness ==
    /\ unit.op = "removed"
    /\ unit.prev = <<"hi", "...">>
    /\ unit.was
    /\ unit.text = <<"hi">>
    /\ unit.pc = "done"
    /\ unit.flagged

\* C29: for chunk texts a and b, clean(a) + " " + clean(b) and
\* clean(a + " " + b) are the same text once the white space at both ends
\* is trimmed.
C29_CleanCommutes ==
    unit.pc = "done" => TrimSpace(unit.parts) = TrimSpace(unit.whole)

\* a marker of a + " " + b straddles the join: a holds an opening bracket
\* with no bracket after it and b a closing one with no bracket before it
straddles(a, b) ==
    /\ \E k \in DOMAIN a :
          /\ a[k] = "["
          /\ \A i \in DOMAIN a : i > k => a[i] \notin Brackets \cup NoiseMarkers
    /\ \E k \in DOMAIN b :
          /\ b[k] = "]"
          /\ \A i \in DOMAIN b : i < k => b[i] \notin Brackets \cup NoiseMarkers

\* strings.Fields: the words of a text, each a run of pieces without a blank
RECURSIVE Fields(_)
Fields(text) ==
    IF text = <<>> THEN <<>>
    ELSE IF Head(text) = Space THEN Fields(Tail(text))
    ELSE LET rest == Fields(Tail(text)) IN
         IF Len(text) > 1 /\ text[2] # Space
         THEN <<<<Head(text)>> \o Head(rest)>> \o Tail(rest)
         ELSE <<<<Head(text)>>>> \o rest

\* C29 as amended: for chunk texts a and b with no marker straddling the
\* join, clean(a) + " " + clean(b) and clean(a + " " + b) hold the same
\* words in the same order; they differ in white space only.
C29_CleanCommutesWords ==
    unit.pc = "done" /\ ~straddles(unit.a, unit.b)
    => Fields(unit.parts) = Fields(unit.whole)

\* "hello [music]" and " hello": one blank between the words when the
\* chunks are cleaned first, three when they are cleaned together
C29_Witness ==
    /\ unit.pc = "done"
    /\ unit.a = <<"hello", Space, "[music]">>
    /\ unit.b = <<Space, "hello">>
    /\ unit.parts = <<"hello", Space, "hello">>
    /\ unit.whole = <<"hello", Space, Space, Space, "hello">>

\* C30: migrating a legacy config that is JSON gives a config with the
\* microphone id and the models directory of the old one and a single
\* preset: chord hotkeyMod + "+" + hotkeyKey, hotkeyKey alone without a
\* modifier, empty without a key; mode, model and language of the old
\* config, or hold, base-q5_1 and auto where it has none; history kept;
\* enabled exactly when the chord is not empty. Bytes that are not JSON
\* give no config.
C30_Migrate ==
    unit.pc = "done" =>
       LET old == unit.data
           new == unit.out
           p == new.presets[1]
       IN  IF ~old.valid THEN new.nil
           ELSE /\ ~new.nil
                /\ Len(new.presets) = 1
                /\ old.hotkeyKey = <<>> => p.hotkey = <<>>
                /\ old.hotkeyKey # <<>> /\ old.hotkeyMod = <<>>
                   => p.hotkey = old.hotkeyKey
                /\ old.hotkeyKey # <<>> /\ old.hotkeyMod # <<>>
                   => p.hotkey = old.hotkeyMod \o <<"+">> \o old.hotkeyKey
                /\ p.inputMode \in {old.recordMode, "hold"}
                /\ p.inputMode = "hold" <=> old.recordMode \in {"", "hold"}
                /\ p.modelName \in {old.modelName, "base-q5_1"}
                /\ p.modelName = "base-q5_1"
                      <=> old.modelName \in {"", "base-q5_1"}
                /\ p.language \in {old.language, "auto"}
                /\ p.language = "auto" <=> old.language \in {"", "auto"}
                /\ p.keepHistory
                /\ p.enabled <=> p.hotkey # <<>>
                /\ new.microphoneId = old.microphoneId
                /\ new.modelsDir = old.modelsDir

\* C31: at most one goroutine is inside whisper_full on a handle; while one
\* is, the context of the handle is not freed; and a Transcribe that finds
\* the context freed returns an error and never reaches whisper_full.
C31_InferenceSerialised ==
    /\ Cardinality({g \in Callers : unit.pc[g] = "t_full"}) <= 1
    /\ \A g \in Callers : unit.pc[g] = "t_full" => unit.ctx
    /\ \A g \in Callers :
          unit.pc[g] \in {"t_full", "unlock"} /\ ~unit.saw[g]
          => unit.pc[g] = "unlock" /\ unit.res[g] = "err"

\* an inference runs while a Close waits for the mutex and a Transcribe of
\* a third goroutine waits too
C31_Witness ==
    /\ unit.pc[1] = "t_full"
    /\ unit.pc[2] = "c_lock"
    /\ unit.pc[3] = "t_lock"
    /\ unit.ctx

\* C32: a session begins when StartRecording writes "recording", and
\* nothing else writes it; the StopRecording call that finds its preset
\* recording takes the audio, closes the session by writing "processing"
\* and goes into the pipeline; every other StopRecording call returns the
\* empty result without error, with nothing injected, no history entry and
\* no change of the state of the program.
C32_OneStopTakes ==
    [][/\ \A p \in PresetIds :
             states[p] # "recording" /\ states'[p] = "recording"
             => \E t \in Threads : /\ th[t].pc = "sr_check" /\ th[t].p = p
                                   /\ th'[t].pc = "sr_audio"
       /\ \A t \in Threads :
          th[t].pc = "st_begin" /\ th'[t].pc # "st_begin" =>
             LET p == th[t].p IN
             IF states[p] = "recording"
             THEN /\ th'[t].pc = "st_pipe"
                  /\ states'[p] = "processing"
                  /\ ~audioActive'
                  /\ th'[t].n = (IF audioActive THEN audioSamples ELSE 0)
             ELSE /\ th'[t].pc = "done" /\ th'[t].res = "empty"
                  /\ th'[t].inj = <<>> /\ th'[t].hist = 0
                  /\ \A u \in Threads \ {t} : th'[u] = th[u]
                  /\ UNCHANGED <<cfg, disk, states, recordingID, sessionPress, audioActive,
                                 audioSamples, recordTimer, recLive,
                                 staleTimers, engines, hOpen>>]_vars

\* one StopRecording call is in the pipeline for p1 and the other one has
\* returned the empty result
C32_Witness ==
    /\ th[1].pc \in PipelinePcs /\ th[1].p = "p1"
    /\ th[2].pc = "done" /\ th[2].p = "p1" /\ th[2].res = "empty"
    /\ states["p1"] = "processing"

\* C33: an armed auto-stop timer belongs to the session that is recording:
\* the timer the orchestrator points to is armed only while its preset is
\* recording, and no armed timer is left that the orchestrator has lost.
C33_TimerOfSession ==
    /\ recLive => states[recordTimer] = "recording" /\ recordingID = recordTimer
    /\ \A p \in PresetIds : staleTimers[p] = 0


\* C34: a release handler stops a hold-mode session only if its release
\* belongs to the press that started the session: when a goroutine of
\* onHotkeyRelease takes a recording session in StopRecording, the match its
\* callback was dispatched for is the match of the press callback whose
\* StartRecording opened that session
C34_ReleaseOfOwnPress ==
    [][\A t \in Threads :
          /\ th[t].pc = "st_begin" /\ th[t].m # 0
          /\ InputMode(th[t].p) = "hold"
          /\ th'[t].pc = "st_pipe"
          => sessionPress = th[t].m]_vars

\* C35: whenever no StartRecording and no StopRecording call is in progress,
\* the capturer is active if and only if exactly one preset is in state
\* "recording"
C35_CapturerFollowsState ==
    (\A t \in Threads :
        th[t].pc \notin {"sr_check", "sr_audio", "sr_revert", "sr_timer",
                         "st_begin"} \cup PipelinePcs)
    => (audioActive <=> Cardinality({p \in PresetIds : states[p] = "recording"}) = 1)

\* C36: for every preset id press and release callbacks pair up, the press
\* first: a release is dispatched only for a match whose press was, and a
\* press whose chord is no longer fully held has had its release dispatched,
\* also when the binding was registered again or unregistered, or capture
\* mode was entered, while the chord was matched
chordHeld(id) ==
    LET ks == parseHotkeyStr(Hotkey(id)).keys IN
    \A k \in DOMAIN ks : ks[k] \in pressedKeys

C36_PressReleasePaired ==
    \A cb \in Dispatched :
        /\ cb.kind = "release" => Callback("press", cb.id, cb.m) \in Dispatched
        /\ cb.kind = "press" /\ ~chordHeld(cb.id)
           => Callback("release", cb.id, cb.m) \in Dispatched

\* C37: every CaptureHotkey call returns in the end once a finalising key
\* action, Escape or CancelCapture has occurred after it started, also when
\* a second call started before the first had returned; and no send of a
\* capture result finds the buffer of its channel full, so none blocks under
\* the hotkey mutex
C37_CaptureReturns ==
    /\ [](\A c \in 1 .. MaxCaptures + 1 : Len(chanBuf[c]) <= 1)
    /\ \A c \in 1 .. MaxCaptures + 1 :
          (captureCh >= c /\ ~capturing) ~> (c \in capDone)

\* C38: the orchestrator calls, the hotkey event loop, the device callback,
\* FlushEngines, deactivatePreset and Shutdown never deadlock: as long as
\* one of them has not finished, one of them can take its next step; and
\* none waits, holding a mutex, for the end of a callback that waits for
\* that mutex
waitsForCallback(g) == ~Over(g) /\ NextOp(g).op = "stopped"

C38_NoDeadlock ==
    /\ (\E g \in Procs \ {"onRecvFrames"} : ~Over(g)) \/ inCallback
       => \E g \in Procs : CanStep(g)
    /\ \A g \in Procs :
          waitsForCallback(g) /\ inCallback
          => LET o == NextOp("onRecvFrames") IN
             ~(o.op = "lock" /\ unit.holder[o.mu] = g)

\* C39: no writer of config.json overwrites the update of another with a
\* stale copy: a save of SaveGlobalSettings or onBackendInstalled leaves the
\* presets of the file as they were, and a save of a preset operation leaves
\* the global settings of the file as they were
savesSettings(t) ==
    th[t].pc \in {"gs_save", "bi_save"} /\ th'[t].pc # th[t].pc

C39_NoStaleWrite ==
    [][IF \E t \in Threads : savesSettings(t)
       THEN /\ disk'.presets = disk.presets
            /\ disk'.enabled = disk.enabled
            /\ disk'.renamed = disk.renamed
       ELSE /\ disk'.theme = disk.theme
            /\ disk'.backend = disk.backend]_vars

\* C40: the install flow runs onBackendInstalled, which flushes the engine
\* cache and switches the backend, only after the library was downloaded and
\* hot-loaded; every install that is over has emitted exactly one done
\* event; and after a failed download or hot-load the selected backend is
\* the one of before and the done event carries an error
inCallbackInstalled ==
    \E t \in Threads :
        th[t].pc \in {"flush", "bi_load", "bi_save", "bi_reload", "bi_assign"}

C40_InstallSwitches ==
    /\ inCallbackInstalled => unit.got /\ unit.loaded
    /\ Len(unit.events) = (IF unit.pc = "over" THEN 1 ELSE 0)
    /\ unit.pc = "over" /\ ~(unit.got /\ unit.loaded)
       => /\ unit.events[1].err
          /\ cfg.backend = "cpu" /\ disk.backend = "cpu"
          /\ lastInstalled = None
====
